---- MODULE Spec2Model ----
(***************************************************************************)
(* Model of nomatic-data's Record (src/src/Record.ts): the data tree, the  *)
(* change log, virtual properties, and set / unset / revert / commit /     *)
(* init, with lodash get / set / unset computed as lodash computes them    *)
(* (Spec); the rest of the Record's interface and its proxy (ApiSpec); a   *)
(* Record constructed from another (CloneSpec); and the Mapper             *)
(* (src/src/Mapper.ts) over its adapter (MapperSpec); and the Query        *)
(* (src/src/Query.ts), its WhereQuery, its parser and its translation to   *)
(* AQL (QuerySpec).                                                        *)
(*                                                                         *)
(* JavaScript values are tagged records [t, v]; t is the JS type.  A path  *)
(* ('a.x') is the sequence of its segments (<<"a", "x">>), which is what   *)
(* lodash's stringToPath makes of the key string.                          *)
(***************************************************************************)
EXTENDS Integers, Sequences, FiniteSets, TLC

\* data, changes, virtuals: the Record's _data, _changes, _virtuals;
\* number, saved: the variables the virtuals' getters and setters close over;
\* base: whether only set / unset were called since the last commit / init
\*       that left an empty log, and _data as that call left it;
\* last: the last call, its arguments, its result and the state before it;
\* ops: the number of calls made since construction;
\* handlers: whether the Record has a _save and a _validate handler;
\* twin: a second Record constructed from this one (its _data, _changes,
\*       _virtuals and handlers) and whether the value under `a` is one and
\*       the same object in both;
\* mapper: the Mapper operation in progress (its remaining steps, the hooks
\*       and adapter calls it has made, the record it fetched, what it
\*       settled to) and the documents the adapter's collection holds;
\* query: a Query (its data), the WhereQuery the caller got last, and the
\*       number of predicate objects made for it;
\* container: a Container and its adapter (the load flags, the calls of
\*       load() and what became of them, the database the adapter has
\*       selected and its requests in flight).
VARIABLES data, changes, virtuals, number, saved, base, last, ops, handlers, twin, mapper,
          query, container

recVars == <<data, changes, virtuals, number, saved, base, last, ops>>
extVars == <<handlers, twin, mapper, query, container>>
vars == <<data, changes, virtuals, number, saved, base, last, ops, handlers, twin, mapper,
          query, container>>

\* Number of calls made on the record after its construction.
MaxOps == 3

(***************************************************************************)
(* JavaScript values                                                       *)
(***************************************************************************)
Undef == [t |-> "undefined", v |-> 0]
Null == [t |-> "null", v |-> 0]
Num(n) == [t |-> "number", v |-> n]
Str(s) == [t |-> "string", v |-> s]
Bool(b) == [t |-> "boolean", v |-> b]
EmptyMap == [k \in {} |-> Undef]
\* a plain object: its own enumerable properties
Obj(m) == [t |-> "object", v |-> m]
\* an array: its elements (Undef = a hole) and its non-index properties
Arr(e, p) == [t |-> "array", v |-> [e |-> e, p |-> p]]

\* util.isNullOrUndefined
isNullOrUndefined(x) == x.t \in {"undefined", "null"}

\* `x instanceof Object` for the values of the model
instanceofObject(x) == x.t \in {"object", "array"}

\* lodash isObject
isObject(x) == x.t \in {"object", "array"}

\* JS ToBoolean (`!!x`)
Truthy(x) ==
    CASE x.t = "undefined" -> FALSE
      [] x.t = "null" -> FALSE
      [] x.t = "number" -> x.v # 0
      [] x.t = "string" -> x.v # ""
      [] x.t = "boolean" -> x.v
      [] OTHER -> TRUE

\* lodash isIndex, on the segments the model uses
isIndex(k) == k \in {"0", "1"}
IndexOf(k) == IF k = "0" THEN 0 ELSE 1

\* String(x.length) and x[0] of the strings the model uses
StrLen(s) ==
    CASE s = "" -> 0
      [] s = "J" -> 1
      [] s = "no" -> 2
      [] s = "yes" -> 3
      [] OTHER -> 5
CharAt(s, i) ==
    IF i >= StrLen(s) THEN Undef
    ELSE IF i = 0 /\ s = "J" THEN Str("J") ELSE Str("c")

\* map m with key k bound to x / without key k
MapPut(m, k, x) == [j \in (DOMAIN m) \cup {k} |-> IF j = k THEN x ELSE m[j]]
MapDel(m, k) == [j \in (DOMAIN m) \ {k} |-> m[j]]

\* JS property read o[k], o neither null nor undefined
Prop(o, k) ==
    CASE o.t = "object" -> IF k \in DOMAIN o.v THEN o.v[k] ELSE Undef
      [] o.t = "array" ->
            IF k = "length" THEN Num(Len(o.v.e))
            ELSE IF isIndex(k)
                 THEN IF IndexOf(k) < Len(o.v.e) THEN o.v.e[IndexOf(k) + 1] ELSE Undef
                 ELSE IF k \in DOMAIN o.v.p THEN o.v.p[k] ELSE Undef
      [] o.t = "string" ->
            IF k = "length" THEN Num(StrLen(o.v))
            ELSE IF isIndex(k) THEN CharAt(o.v, IndexOf(k)) ELSE Undef
      [] OTHER -> Undef

\* JS `k in o` / hasOwnProperty for objects and arrays
HasKey(o, k) ==
    CASE o.t = "object" -> k \in DOMAIN o.v
      [] o.t = "array" ->
            IF k = "length" THEN TRUE
            ELSE IF isIndex(k)
                 THEN IndexOf(k) < Len(o.v.e) /\ o.v.e[IndexOf(k) + 1] # Undef
                 ELSE k \in DOMAIN o.v.p
      [] OTHER -> FALSE

\* elements e, cut or padded with holes to length n
Resize(e, n) == [i \in 1..n |-> IF i <= Len(e) THEN e[i] ELSE Undef]

\* JS assignment o[k] = x, o an object or an array
PropAssign(o, k, x) ==
    CASE o.t = "object" -> Obj(MapPut(o.v, k, x))
      [] o.t = "array" ->
            IF k = "length"
            THEN IF x.t = "number" /\ x.v >= 0 THEN Arr(Resize(o.v.e, x.v), o.v.p) ELSE o
            ELSE IF isIndex(k)
                 THEN Arr([Resize(o.v.e, IF IndexOf(k) < Len(o.v.e) THEN Len(o.v.e) ELSE IndexOf(k) + 1)
                               EXCEPT ![IndexOf(k) + 1] = x], o.v.p)
                 ELSE Arr(o.v.e, MapPut(o.v.p, k, x))
      [] OTHER -> o

\* JS `delete o[k]`: the object afterwards
PropDelete(o, k) ==
    CASE o.t = "object" -> Obj(MapDel(o.v, k))
      [] o.t = "array" ->
            IF k = "length" THEN o
            ELSE IF isIndex(k)
                 THEN IF IndexOf(k) < Len(o.v.e)
                      THEN Arr([o.v.e EXCEPT ![IndexOf(k) + 1] = Undef], o.v.p)
                      ELSE o
                 ELSE Arr(o.v.e, MapDel(o.v.p, k))
      [] OTHER -> o

\* JS `delete o[k]`: its result; false for the non-configurable properties
\* (an array's or a string's length, a string's characters)
DeleteResult(o, k) ==
    CASE o.t = "array" -> k # "length"
      [] o.t = "string" -> ~(k = "length" \/ (isIndex(k) /\ IndexOf(k) < StrLen(o.v)))
      [] OTHER -> TRUE

(***************************************************************************)
(* lodash get / set / unset                                                *)
(***************************************************************************)
RECURSIVE baseGet(_, _)
baseGet(object, path) ==
    IF path = <<>> THEN object
    ELSE IF isNullOrUndefined(object) THEN Undef
    ELSE baseGet(Prop(object, Head(path)), Tail(path))

\* lodash.get(object, path)
LodashGet(object, path) ==
    IF isNullOrUndefined(object) \/ path = <<>> THEN Undef ELSE baseGet(object, path)

\* lodash assignValue: writes unless the own property already holds the value
assignValue(object, key, value) ==
    IF ~(HasKey(object, key) /\ Prop(object, key) = value)
       \/ (value = Undef /\ ~HasKey(object, key))
    THEN PropAssign(object, key, value)
    ELSE object

RECURSIVE baseSet(_, _, _)
baseSet(nested, path, value) ==
    IF Len(path) = 1 THEN assignValue(nested, path[1], value)
    ELSE LET objValue == Prop(nested, path[1])
             newValue == IF isObject(objValue) THEN objValue
                         ELSE IF isIndex(path[2]) THEN Arr(<<>>, EmptyMap)
                         ELSE Obj(EmptyMap)
         IN  assignValue(nested, path[1], baseSet(newValue, Tail(path), value))

\* lodash.set(object, path, value): the object afterwards
LodashSet(object, path, value) ==
    IF ~isObject(object) \/ path = <<>> THEN object ELSE baseSet(object, path, value)

RECURSIVE baseUnset(_, _)
baseUnset(object, path) ==
    IF Len(path) = 1 THEN PropDelete(object, path[1])
    ELSE LET child == Prop(object, path[1])
         IN  IF isObject(child) THEN PropAssign(object, path[1], baseUnset(child, Tail(path)))
             ELSE object

\* the parent of the last segment, as lodash's parent() finds it
ParentOf(object, path) ==
    IF Len(path) = 1 THEN object ELSE LodashGet(object, SubSeq(path, 1, Len(path) - 1))

\* lodash.unset(object, path): the object afterwards, and the value returned
LodashUnset(object, path) ==
    IF isNullOrUndefined(object) \/ path = <<>> THEN object ELSE baseUnset(object, path)
LodashUnsetResult(object, path) ==
    IF isNullOrUndefined(object) THEN TRUE
    ELSE LET p == ParentOf(object, path)
         IN  isNullOrUndefined(p) \/ DeleteResult(p, path[Len(path)])

(***************************************************************************)
(* Virtual properties                                                      *)
(***************************************************************************)
\* The virtual definitions handed to the constructor: the three of the
\* Record test (hello: a bare getter function; number: get/set over the
\* closure variable `number`; saved: get/set over `saved`, save = true,
\* serialize = false) and a getter computed from the record's own fields
\* (`name`, as in the Container test), with the save flag of number and name
\* left to the caller.
VirtualNames == <<"hello", "number", "saved", "name">>

OptionsVirtuals(numberSave, nameSave) ==
    [n \in {"hello", "number", "saved", "name"} |->
        CASE n = "hello" -> [isFunction |-> TRUE, hasSet |-> FALSE, hasSave |-> FALSE,
                             save |-> FALSE, hasSerialize |-> FALSE, serialize |-> FALSE]
          [] n = "number" -> [isFunction |-> FALSE, hasSet |-> TRUE, hasSave |-> numberSave,
                              save |-> numberSave, hasSerialize |-> FALSE, serialize |-> FALSE]
          [] n = "saved" -> [isFunction |-> FALSE, hasSet |-> TRUE, hasSave |-> TRUE,
                             save |-> TRUE, hasSerialize |-> TRUE, serialize |-> FALSE]
          [] OTHER -> [isFunction |-> FALSE, hasSet |-> FALSE, hasSave |-> TRUE,
                       save |-> nameSave, hasSerialize |-> TRUE, serialize |-> FALSE]]

\* `set virtuals(value)`: a bare function becomes {get}; save defaults to
\* false and serialize to true; only get, set, save, serialize are kept.
virtualsSetter(value) ==
    [n \in DOMAIN value |->
        [hasSet |-> ~value[n].isFunction /\ value[n].hasSet,
         save |-> IF ~value[n].isFunction /\ value[n].hasSave THEN value[n].save ELSE FALSE,
         serialize |-> IF ~value[n].isFunction /\ value[n].hasSerialize
                       THEN value[n].serialize ELSE TRUE]]

\* `${x}` for the values of the model (an array has at most one element,
\* a scalar)
ToStr(x) ==
    CASE x.t = "undefined" -> "undefined"
      [] x.t = "null" -> "null"
      [] x.t = "number" -> ToString(x.v)
      [] x.t = "boolean" -> IF x.v THEN "true" ELSE "false"
      [] x.t = "string" -> x.v
      [] x.t = "object" -> "[object Object]"
      [] OTHER -> IF Len(x.v.e) = 0 \/ isNullOrUndefined(x.v.e[1]) THEN ""
                  ELSE IF x.v.e[1].t = "number" THEN ToString(x.v.e[1].v)
                  ELSE IF x.v.e[1].t = "boolean" THEN (IF x.v.e[1].v THEN "true" ELSE "false")
                  ELSE x.v.e[1].v

\* the getter of virtual n, in record state s
VirtualGet(n, s) ==
    CASE n = "hello" -> Str("world")
      [] n = "number" -> s.number
      [] n = "saved" -> IF s.saved = Bool(TRUE) THEN Str("yes") ELSE Str("no")
      [] OTHER -> Str(ToStr(LodashGet(s.data, <<"a">>)))

\* the setter of virtual n applied to value
VirtualSet(n, s, value) ==
    CASE n = "number" -> [s EXCEPT !.number = value]
      [] n = "saved" -> [s EXCEPT !.saved = value]
      [] OTHER -> s

\* this._virtuals.has(key)
VirtualsHas(s, key) == Len(key) = 1 /\ key[1] \in DOMAIN s.virtuals

\* Members a Map instance answers to a property read: what
\* lodash.get(this._virtuals, key) finds, since it reads properties of the
\* Map object and not its entries.
MapMembers == {"size", "get", "set", "has", "delete", "clear", "keys", "values",
               "entries", "forEach", "constructor"}
LodashGetOfMap(s, key) ==
    IF Len(key) = 1 /\ key[1] \in MapMembers THEN Str("member") ELSE Undef

(***************************************************************************)
(* Record operations.  A record state s is [data, changes, virtuals,       *)
(* number, saved]; every operation yields the state afterwards and ret.    *)
(***************************************************************************)
RecState(d, c, vs, n, sv) ==
    [data |-> d, changes |-> c, virtuals |-> vs, number |-> n, saved |-> sv]

WithRet(s, r) ==
    [data |-> s.data, changes |-> s.changes, virtuals |-> s.virtuals,
     number |-> s.number, saved |-> s.saved, ret |-> r]

NoRet(s) == RecState(s.data, s.changes, s.virtuals, s.number, s.saved)

\* Record.get(key)
RecordGet(s, key) ==
    IF VirtualsHas(s, key) THEN VirtualGet(key[1], s) ELSE LodashGet(s.data, key)

\* this.get(parentKey): parentKey is the array of the key's segments without
\* the last, turned into a string by toString() (joined with commas)
ParentGet(s, key) ==
    IF Len(key) = 2 THEN RecordGet(s, <<key[1]>>) ELSE Undef

\* key.endsWith('length')
endsWithLength(key) == key[Len(key)] = "length"

\* value.slice() / Object.assign({}, value)
Slice(x) == Arr(x.v.e, EmptyMap)
ObjectAssign(x) ==
    IF x.t = "array"
    THEN Obj([k \in {j \in {"0", "1"} : HasKey(x, j)} \cup DOMAIN x.v.p |-> Prop(x, k)])
    ELSE IF x.t = "object" THEN Obj(x.v) ELSE Obj(EmptyMap)

Change(operation, key, old, new) ==
    [operation |-> operation, key |-> key, old |-> old, new |-> new]

\* A plausible slip: the change keeps the value handed to set instead of the
\* value the virtual's getter returns after its setter ran.
SetAndLogRawValue(s, key, value) ==
    LET isVirtual == VirtualsHas(s, key)
        operation == IF Truthy(RecordGet(s, key)) THEN "replace" ELSE "add"
        old == RecordGet(s, key)
        s1 == IF isVirtual THEN VirtualSet(key[1], s, value) ELSE s
    IN  WithRet([s1 EXCEPT !.data = LodashSet(s1.data, key, value),
                           !.changes = Append(s1.changes, Change(operation, key, old, value))],
                "undefined")

\* Record.set past its early returns: the operation, the copies of old and
\* new, the write to _data and the push on _changes
SetAndLog(s, key, value) ==
    LET isVirtual == VirtualsHas(s, key)
        operation == IF Truthy(RecordGet(s, key)) THEN "replace" ELSE "add"
        old == RecordGet(s, key)
        s1 == IF isVirtual THEN VirtualSet(key[1], s, value) ELSE s
        value1 == IF isVirtual THEN VirtualGet(key[1], s1) ELSE value
        newVal == IF instanceofObject(value1)
                  THEN (IF value1.t = "array" THEN Slice(value1) ELSE ObjectAssign(value1))
                  ELSE value1
        old1 == IF operation = "replace" /\ instanceofObject(old)
                THEN (IF old.t = "array" THEN Slice(old) ELSE ObjectAssign(old))
                ELSE old
    IN  WithRet([s1 EXCEPT !.data = LodashSet(s1.data, key, value1),
                           !.changes = Append(s1.changes, Change(operation, key, old1, newVal))],
                "undefined")

\* A plausible slip: a write of the value the key already holds is treated
\* as no change and is not logged.
RecordSetSkipsNoop(s, key, value) ==
    IF VirtualsHas(s, key) /\ ~s.virtuals[key[1]].hasSet THEN WithRet(s, "false")
    ELSE IF VirtualsHas(s, key) /\ ~s.virtuals[key[1]].save
    THEN WithRet(VirtualSet(key[1], s, value), "true")
    ELSE IF ParentGet(s, key).t = "array" /\ endsWithLength(key) THEN WithRet(s, "undefined")
    ELSE IF RecordGet(s, key) = value THEN WithRet(s, "undefined")
    ELSE SetAndLog(s, key, value)

\* A plausible slip: the early return for save = false is missing, so that
\* every virtual with a setter is written to _data and logged.
RecordSetLogsUnsaved(s, key, value) ==
    IF VirtualsHas(s, key) /\ ~s.virtuals[key[1]].hasSet THEN WithRet(s, "false")
    ELSE IF ParentGet(s, key).t = "array" /\ endsWithLength(key) THEN WithRet(s, "undefined")
    ELSE SetAndLog(s, key, value)

\* Record.set(key, value)
RecordSet(s, key, value) ==
    IF VirtualsHas(s, key) /\ ~s.virtuals[key[1]].hasSet THEN WithRet(s, "false")
    ELSE IF VirtualsHas(s, key) /\ ~s.virtuals[key[1]].save
    THEN WithRet(VirtualSet(key[1], s, value), "true")
    ELSE IF ParentGet(s, key).t = "array" /\ endsWithLength(key) THEN WithRet(s, "undefined")
    ELSE SetAndLog(s, key, value)

\* Record.unset(key)
RecordUnset(s, key) ==
    IF ~isNullOrUndefined(LodashGetOfMap(s, key)) THEN WithRet(s, "false")
    ELSE LET old == RecordGet(s, key)
             old1 == IF instanceofObject(old) THEN ObjectAssign(old) ELSE old
         IN  IF old = Undef THEN WithRet(s, "false")
             ELSE IF LodashUnsetResult(s.data, key)
             THEN WithRet([s EXCEPT !.data = LodashUnset(s.data, key),
                                    !.changes = Append(s.changes,
                                                       Change("remove", key, old1, Undef))],
                          "true")
             ELSE WithRet(s, "false")

\* A plausible slip: shift() for pop(): the oldest change is undone first.
RevertOneOldestFirst(s) ==
    LET change == s.changes[1]
        rest == Tail(s.changes)
    IN  [s EXCEPT !.changes = rest,
                  !.data = IF change.operation \in {"remove", "replace"}
                           THEN LodashSet(s.data, change.key, change.old)
                           ELSE LodashUnset(s.data, change.key)]

\* one turn of the loop of revert: pop the newest change and undo it
RevertOne(s) ==
    LET change == s.changes[Len(s.changes)]
        rest == SubSeq(s.changes, 1, Len(s.changes) - 1)
    IN  [s EXCEPT !.changes = rest,
                  !.data = IF change.operation \in {"remove", "replace"}
                           THEN LodashSet(s.data, change.key, change.old)
                           ELSE LodashUnset(s.data, change.key)]

\* Record.revert(count); popping from an empty log yields undefined, whose
\* .operation read throws a TypeError
RECURSIVE RecordRevert(_, _)
RecordRevert(s, count) ==
    IF count <= 0 THEN WithRet(s, "undefined")
    ELSE IF s.changes = <<>> THEN WithRet(s, "TypeError")
    ELSE RecordRevert(RevertOne(s), count - 1)

\* A plausible slip: the committed object is merged into _data
\* (Object.assign(this._data, data)) instead of replacing it.
CommitDataMerged(s, arg) ==
    CASE arg.kind = "object" ->
            [s EXCEPT !.data = Obj([k \in (DOMAIN s.data.v) \cup (DOMAIN arg.val.v) |->
                                      IF k \in DOMAIN arg.val.v THEN arg.val.v[k] ELSE s.data.v[k]])]
      [] arg.kind = "record" -> [s EXCEPT !.data = arg.other.data]
      [] arg.kind = "true" -> s
      [] OTHER -> NoRet(RecordSet(s, <<"rev">>, arg.val))

\* commit: the assignment of this._data, or of this.rev through the proxy's
\* set trap, which finds no property `rev` on the Record and calls set
CommitData(s, arg) ==
    CASE arg.kind = "object" -> [s EXCEPT !.data = arg.val]
      [] arg.kind = "record" -> [s EXCEPT !.data = arg.other.data]
      [] arg.kind = "true" -> s
      [] OTHER -> NoRet(RecordSet(s, <<"rev">>, arg.val))

\* commit: the loop over this._virtuals.entries(), in insertion order
RECURSIVE CommitVirtuals(_, _)
CommitVirtuals(s, names) ==
    IF names = <<>> THEN s
    ELSE LET n == Head(names)
             value == LodashGet(s.data, <<n>>)
             s1 == IF n \notin DOMAIN s.virtuals THEN s
                   ELSE IF ~s.virtuals[n].save THEN s
                   ELSE IF s.virtuals[n].hasSet /\ ~isNullOrUndefined(value)
                   THEN VirtualSet(n, s, value)
                   ELSE [s EXCEPT !.data = LodashSet(s.data, <<n>>, VirtualGet(n, s))]
         IN  CommitVirtuals(s1, Tail(names))

\* A plausible slip: the log is emptied first, before the data is taken, so
\* that what commit itself logs stays in the log.
RecordCommitClearsFirst(s, arg) ==
    WithRet(CommitVirtuals(CommitData([s EXCEPT !.changes = <<>>], arg), VirtualNames),
            "undefined")

\* Record.commit(data), virtuals = null
RecordCommit(s, arg) ==
    WithRet([CommitVirtuals(CommitData(s, arg), VirtualNames) EXCEPT !.changes = <<>>],
            "undefined")

\* Record.init(data), virtuals = null
RecordInit(s, arg) ==
    IF arg.kind = "record"
    THEN WithRet([s EXCEPT !.changes = arg.other.changes,
                           !.data = ObjectAssign(arg.other.data),
                           !.virtuals = arg.other.virtuals],
                 "undefined")
    ELSE RecordCommit(s, arg)

(***************************************************************************)
(* Inputs                                                                  *)
(***************************************************************************)
ObjX(x) == Obj([k \in {"x"} |-> x])

\* keys given to set and unset, and the values set under each
PlainKeys == {<<"a">>, <<"a", "x">>, <<"a", "0">>, <<"a", "length">>}
VirtualKeys == {<<"hello">>, <<"number">>, <<"saved">>, <<"name">>}
Keys == PlainKeys \cup VirtualKeys
ValuesFor(key) ==
    CASE key = <<"a">> -> {Num(0), Num(1), Str(""), ObjX(Num(1)), Arr(<<Num(1)>>, EmptyMap)}
      [] key = <<"number">> -> {Num(0), Num(1)}
      [] key = <<"saved">> -> {Bool(TRUE)}
      [] OTHER -> {Num(1)}

\* objects given to the constructor, to commit and to init
DataA(x) == Obj([k \in {"a"} |-> x])
InitObjects == {DataA(Bool(FALSE))}
DataObjects ==
    {DataA(Arr(<<Num(1)>>, EmptyMap)),
     Obj([k \in {"saved", "number"} |-> IF k = "saved" THEN Bool(TRUE) ELSE Num(0)])}

Revisions == {Str("r1")}

NoRecord == RecState(Obj(EmptyMap), <<>>, EmptyMap, Undef, Undef)
ArgObject(d) == [kind |-> "object", val |-> d, other |-> NoRecord]
ArgRev(r) == [kind |-> "rev", val |-> r, other |-> NoRecord]
ArgTrue == [kind |-> "true", val |-> Bool(TRUE), other |-> NoRecord]
ArgRecord(o) == [kind |-> "record", val |-> Undef, other |-> o]
NoArg == [kind |-> "none", val |-> Undef, other |-> NoRecord]

\* other Records of the same mapper (same virtual definitions): one fresh
\* from the constructor, one after a set
OtherRecords(s) ==
    LET fresh == NoRet(RecordCommit(RecState(Obj(EmptyMap), <<>>, s.virtuals, s.number, s.saved),
                                    ArgObject(DataA(Num(1)))))
    IN  {fresh, NoRet(RecordSet(fresh, <<"a">>, Num(0)))}

CommitArgs(s) == {ArgObject(d) : d \in DataObjects} \cup {ArgRev(r) : r \in Revisions}
                 \cup {ArgTrue} \cup {ArgRecord(o) : o \in {x \in OtherRecords(s) : x.changes # <<>>}}
InitArgs(s) == {ArgObject(DataA(Null))} \cup {ArgRev(r) : r \in Revisions}
               \cup {ArgRecord(o) : o \in OtherRecords(s)}

(***************************************************************************)
(* The state machine                                                       *)
(***************************************************************************)
Cur == RecState(data, changes, virtuals, number, saved)

Based(d) == [valid |-> TRUE, data |-> d]
NoBase == [valid |-> FALSE, data |-> Undef]

\* options.save || null, options.validate || null
NoHandlers == [save |-> FALSE, validate |-> FALSE]
\* no Record was constructed from this one
NoTwin == [exists |-> FALSE, data |-> Undef, changes |-> <<>>, virtuals |-> EmptyMap,
           handlers |-> NoHandlers, aliased |-> FALSE]
\* no Mapper
NoMapper == [todo |-> <<>>]
\* no Query
NoQuery == [made |-> 0]
\* no Container
NoContainer == [calls |-> <<>>]

Call(op, key, value, count, arg, r) ==
    /\ ops < MaxOps
    /\ ops' = ops + 1
    /\ data' = r.data
    /\ changes' = r.changes
    /\ virtuals' = r.virtuals
    /\ number' = r.number
    /\ saved' = r.saved
    /\ base' = IF op \in {"commit", "init"}
               THEN (IF r.changes = <<>> THEN Based(r.data) ELSE NoBase)
               ELSE IF op \in {"set", "unset"} THEN base ELSE NoBase
    /\ last' = [op |-> op, key |-> key, value |-> value, count |-> count, arg |-> arg,
                ret |-> r.ret, pre |-> Cur, prebase |-> base]
    /\ UNCHANGED extVars

\* new Record({virtuals}, d), with the closure variables of the test
Init ==
    \E both \in BOOLEAN, d \in InitObjects :
        LET s0 == RecState(Obj(EmptyMap), <<>>,
                           virtualsSetter(OptionsVirtuals(both, both)),
                           Num(100), Bool(FALSE))
            r == RecordCommit(s0, ArgObject(d))
        IN  /\ data = r.data
            /\ changes = r.changes
            /\ virtuals = r.virtuals
            /\ number = r.number
            /\ saved = r.saved
            /\ base = Based(r.data)
            /\ ops = 0
            /\ last = [op |-> "new", key |-> <<>>, value |-> Undef, count |-> 0,
                       arg |-> ArgObject(d), ret |-> "undefined", pre |-> s0,
                       prebase |-> NoBase]
            /\ handlers = NoHandlers
            /\ twin = NoTwin
            /\ mapper = NoMapper
            /\ query = NoQuery
            /\ container = NoContainer

Set ==
    \E key \in Keys : \E value \in ValuesFor(key) :
        Call("set", key, value, 0, NoArg, RecordSet(Cur, key, value))

Unset ==
    \E key \in Keys :
        Call("unset", key, Undef, 0, NoArg, RecordUnset(Cur, key))

\* revert(count); count may exceed the length of the log
Revert ==
    \E count \in 1..(Len(changes) + 1) :
        Call("revert", <<>>, Undef, count, NoArg, RecordRevert(Cur, count))

\* revert(): count defaults to this._changes.length
RevertAll ==
    Call("revertAll", <<>>, Undef, Len(changes), NoArg, RecordRevert(Cur, Len(changes)))

Commit ==
    \E arg \in CommitArgs(Cur) :
        Call("commit", <<>>, Undef, 0, arg, RecordCommit(Cur, arg))

InitRecord ==
    \E arg \in InitArgs(Cur) :
        Call("init", <<>>, Undef, 0, arg, RecordInit(Cur, arg))

RecNext == Set \/ Unset \/ Revert \/ RevertAll \/ Commit \/ InitRecord

Next == RecNext

Spec == Init /\ [][Next]_vars

(***************************************************************************)
(* Properties of the Record                                                *)
(***************************************************************************)
Pre == last.pre
IsRevert == last.op \in {"revert", "revertAll"}
IsPrefix(p, q) == Len(p) <= Len(q) /\ SubSeq(q, 1, Len(p)) = p
Appended(e) == changes = Append(Pre.changes, e)
Newest == changes[Len(changes)]

\* C1 (as claimed): from a committed state S0 with an empty log, after any
\* set / unset calls, reverting every logged change leaves data equal to S0
\* and the log empty.
C1_RevertExact ==
    (IsRevert /\ last.prebase.valid /\ last.count = Len(Pre.changes))
        => (data = last.prebase.data /\ changes = <<>>)

\* C2 (as claimed): every set on a plain path appends exactly one entry.
C2_SetAlwaysLogs ==
    (last.op = "set" /\ last.key \in PlainKeys)
        => (Len(changes) = Len(Pre.changes) + 1 /\ IsPrefix(Pre.changes, changes))

\* set returned at the guard for an array's length
LengthOfArray == ParentGet(Pre, last.key).t = "array" /\ endsWithLength(last.key)

\* C2 (amended): every set on a plain path, except a key ending in 'length'
\* whose parent is an array (set then does nothing), appends exactly one
\* entry, also when the value equals the current one; an unset that returns
\* true appends exactly one 'remove' entry; an unset that returns false
\* appends none.
C2_SetLogsExceptArrayLength ==
    /\ (last.op = "set" /\ last.key \in PlainKeys /\ ~LengthOfArray)
          => (Len(changes) = Len(Pre.changes) + 1 /\ IsPrefix(Pre.changes, changes)
              /\ Newest.key = last.key)
    /\ (last.op = "set" /\ last.key \in PlainKeys /\ LengthOfArray)
          => (changes = Pre.changes /\ data = Pre.data)
    /\ (last.op = "unset" /\ last.ret = "true")
          => (Len(changes) = Len(Pre.changes) + 1 /\ IsPrefix(Pre.changes, changes)
              /\ Newest.operation = "remove" /\ Newest.key = last.key)
    /\ (last.op = "unset" /\ last.ret = "false") => changes = Pre.changes

\* a set of the value the key already holds was logged
C2_Witness ==
    /\ last.op = "set" /\ last.key \in PlainKeys
    /\ LodashGet(Pre.data, last.key) = last.value
    /\ Len(changes) = Len(Pre.changes) + 1

\* what undoing one entry does to data, in the words of the claim
Undone(d, e) ==
    IF e.operation = "add" THEN LodashUnset(d, e.key) ELSE LodashSet(d, e.key, e.old)

\* d after undoing the last n entries of log c, newest first
RECURSIVE UndoneLast(_, _, _)
UndoneLast(d, c, n) ==
    IF n = 0 THEN d ELSE UndoneLast(Undone(d, c[Len(c)]), SubSeq(c, 1, Len(c) - 1), n - 1)

\* C3: set / unset only append to the log; revert(n), n <= length, removes
\* exactly the last n entries, newest first, keeps the first length - n
\* unchanged, and for each removed entry restores old at its key (replace,
\* remove) or deletes the key (add).
C3_RevertLIFO ==
    /\ last.op \in {"set", "unset"} => IsPrefix(Pre.changes, changes)
    /\ (IsRevert /\ last.count <= Len(Pre.changes))
          => /\ changes = SubSeq(Pre.changes, 1, Len(Pre.changes) - last.count)
             /\ data = UndoneLast(Pre.data, Pre.changes, last.count)
             /\ last.ret = "undefined"
    /\ (IsRevert /\ last.count = 1 /\ Len(Pre.changes) >= 1)
          => LET e == Pre.changes[Len(Pre.changes)]
             IN  LodashGet(data, e.key) = (IF e.operation = "add" THEN Undef ELSE e.old)

\* revert(1) of a log of two entries: the replace logged last is undone,
\* the entry logged first stays
C3_Witness ==
    /\ last.op = "revert" /\ last.count = 1 /\ Len(Pre.changes) = 2
    /\ changes = <<Pre.changes[1]>>
    /\ Pre.changes[2].operation = "replace"
    /\ LodashGet(data, Pre.changes[2].key) = Pre.changes[2].old
    /\ data # Pre.data

\* C4 (as claimed): set logs 'add' exactly when the key had no value before
\* and 'replace' exactly when it had one, whatever the value, with old the
\* prior value and new the written value.
C4_AddIffAbsent ==
    (last.op = "set" /\ last.key \in PlainKeys /\ Len(changes) = Len(Pre.changes) + 1)
        => /\ Newest.operation = (IF LodashGet(Pre.data, last.key) = Undef
                                  THEN "add" ELSE "replace")
           /\ Newest.old = LodashGet(Pre.data, last.key)
           /\ Newest.new = last.value

SaveVirtuals == {n \in DOMAIN virtuals : virtuals[n].save}

\* the virtuals of SaveVirtuals whose setter commit calls for object d
SetterCalled(d) ==
    {n \in SaveVirtuals : virtuals[n].hasSet /\ ~isNullOrUndefined(Prop(d, n))}

\* What the claim says commit leaves when it starts from object d: the
\* fields of d, except that a save = true virtual whose setter is not called
\* holds its getter's value; each called setter has received d's value; the
\* log is empty.
CommittedFrom(d) ==
    /\ \A k \in (DOMAIN data.v) \cup (DOMAIN d.v) \cup SaveVirtuals :
          Prop(data, k) = (IF k \in SaveVirtuals \ SetterCalled(d)
                           THEN VirtualGet(k, Cur) ELSE Prop(d, k))
    /\ "number" \in SetterCalled(d) => number = Prop(d, "number")
    /\ "saved" \in SetterCalled(d) => saved = Prop(d, "saved")
    /\ "number" \notin SetterCalled(d) => number = Pre.number
    /\ "saved" \notin SetterCalled(d) => saved = Pre.saved
    /\ changes = <<>>

C7_UnsetVirtualNoop ==
    (last.op = "unset" /\ last.key \in VirtualKeys)
        => (last.ret = "false" /\ data = Pre.data /\ changes = Pre.changes)

\* C8 (as claimed): unset of a plain path without a value returns false and
\* changes nothing; with a value it removes the value, appends
\* {remove, path, old = the removed value, new = undefined} and returns true.
C8_UnsetPlain ==
    (last.op = "unset" /\ last.key \in PlainKeys)
        => IF LodashGet(Pre.data, last.key) = Undef
           THEN last.ret = "false" /\ data = Pre.data /\ changes = Pre.changes
           ELSE /\ last.ret = "true"
                /\ LodashGet(data, last.key) = Undef
                /\ Appended(Change("remove", last.key, LodashGet(Pre.data, last.key), Undef))

\* C9: setting a virtual with a setter and save = false only calls the
\* setter (log and data unchanged); setting a virtual without a setter
\* changes nothing.
C9_UnsavedVirtualSet ==
    /\ (last.op = "set" /\ last.key \in VirtualKeys /\ virtuals[last.key[1]].hasSet
            /\ ~virtuals[last.key[1]].save)
          => /\ changes = Pre.changes /\ data = Pre.data
             /\ VirtualSet(last.key[1], Pre, last.value) = Cur
    /\ (last.op = "set" /\ last.key \in VirtualKeys /\ ~virtuals[last.key[1]].hasSet)
          => Cur = Pre

\* the setter of `number` (save = false) ran: the getter's value changed,
\* the log and the data did not
C9_Witness ==
    /\ last.op = "set" /\ last.key = <<"number">> /\ ~virtuals["number"].save
    /\ VirtualGet("number", Cur) = last.value
    /\ VirtualGet("number", Pre) # last.value
    /\ Pre.changes # <<>> /\ changes = Pre.changes

\* C10: setting a virtual with a setter and save = true calls the setter and
\* appends exactly one entry: key = the virtual's name, old = the getter's
\* value before the setter ran, new = the getter's value after; data holds
\* the new getter value under the name.
C10_SavedVirtualSet ==
    (last.op = "set" /\ last.key \in VirtualKeys /\ virtuals[last.key[1]].hasSet
        /\ virtuals[last.key[1]].save)
        => /\ Len(changes) = Len(Pre.changes) + 1 /\ IsPrefix(Pre.changes, changes)
           /\ Newest.key = last.key
           /\ Newest.old = VirtualGet(last.key[1], Pre)
           /\ Newest.new = VirtualGet(last.key[1], Cur)
           /\ Prop(data, last.key[1]) = VirtualGet(last.key[1], Cur)
           /\ VirtualSet(last.key[1], Pre, last.value).number = number
           /\ VirtualSet(last.key[1], Pre, last.value).saved = saved

\* instance.saved = true: replace saved 'no' -> 'yes'
C10_Witness ==
    /\ last.op = "set" /\ last.key = <<"saved">> /\ last.value = Bool(TRUE)
    /\ Newest = Change("replace", <<"saved">>, Str("no"), Str("yes"))
    /\ Prop(data, "saved") = Str("yes")

(***************************************************************************)
(* The rest of the Record's interface: changes, serialize, toJSON, save,   *)
(* validate and the traps of the proxy the constructor returns.            *)
(***************************************************************************)
MaxCalls == 2

Min(a, b) == IF a < b THEN a ELSE b
Max(a, b) == IF a > b THEN a ELSE b

\* Array.prototype.slice(start, end): a negative index counts from the end
ArraySlice(a, start, end) ==
    LET len == Len(a)
        k == IF start < 0 THEN Max(len + start, 0) ELSE Min(start, len)
        final == IF end < 0 THEN Max(len + end, 0) ELSE Min(end, len)
    IN  IF final <= k THEN <<>> ELSE SubSeq(a, k + 1, final)

\* Record.changes(count); count is null or a number
RecordChanges(s, count) ==
    LET c == IF count = Null THEN Len(s.changes) ELSE count.v
        start == Len(s.changes) - c
        end == start + c
    IN  WithRet(s, ArraySlice(s.changes, start, end))

\* serialize: the loop over this._virtuals.entries() on the copy of _data
RECURSIVE SerializeVirtuals(_, _, _, _)
SerializeVirtuals(s, result, names, condition) ==
    IF names = <<>> THEN result
    ELSE LET n == Head(names)
             value == VirtualGet(n, s)
             flag == IF condition = "save" THEN s.virtuals[n].save
                     ELSE s.virtuals[n].serialize
             r1 == IF n \notin DOMAIN s.virtuals THEN result
                   ELSE IF flag = FALSE \/ isNullOrUndefined(value)
                   THEN LodashUnset(result, <<n>>)
                   ELSE LodashSet(result, <<n>>, value)
         IN  SerializeVirtuals(s, r1, Tail(names), condition)

\* A plausible slip: the condition is ignored and the serialize flag decides
\* for every caller.
RecordSerializeIgnoresCondition(s, condition) ==
    WithRet(s, SerializeVirtuals(s, ObjectAssign(s.data), VirtualNames, "serialize"))

\* Record.serialize(condition)
RecordSerialize(s, condition) ==
    WithRet(s, SerializeVirtuals(s, ObjectAssign(s.data), VirtualNames, condition))

\* Record.toJSON()
RecordToJSON(s) == RecordSerialize(s, "serialize")

\* what a handler's promise settles to
Resolved(arg) == [settled |-> "resolved", arg |-> arg, error |-> "none"]
Rejected(e) == [settled |-> "rejected", arg |-> NoArg, error |-> e]
Errors == {"E1", "E2"}

\* what save() / validate() settle to
Fulfilled == [settled |-> "resolved", error |-> "none"]
Thrown(e) == [settled |-> "rejected", error |-> e]

\* A plausible slip: the changes are given up before the handler has settled,
\* so that a rejection leaves an empty log.
RecordSaveCommitsFirst(s, h, outcome) ==
    IF ~h.save THEN WithRet(s, Fulfilled)
    ELSE IF outcome.settled = "rejected"
    THEN WithRet(NoRet(RecordCommit(s, ArgTrue)), Thrown(outcome.error))
    ELSE WithRet(NoRet(RecordCommit(s, outcome.arg)), Fulfilled)

\* A plausible slip: without a handler the changes are committed all the same.
RecordSaveAlwaysCommits(s, h, outcome) ==
    IF ~h.save THEN WithRet(NoRet(RecordCommit(s, ArgTrue)), Fulfilled)
    ELSE IF outcome.settled = "rejected" THEN WithRet(s, Thrown(outcome.error))
    ELSE WithRet(NoRet(RecordCommit(s, outcome.arg)), Fulfilled)

\* Record.save(); outcome is what this._save(this) settles to
RecordSave(s, h, outcome) ==
    IF ~h.save THEN WithRet(s, Fulfilled)
    ELSE IF outcome.settled = "rejected" THEN WithRet(s, Thrown(outcome.error))
    ELSE WithRet(NoRet(RecordCommit(s, outcome.arg)), Fulfilled)

\* Record.validate(); outcome is what this._validate(this) settles to
RecordValidate(s, h, outcome) ==
    IF ~h.validate THEN WithRet(s, Fulfilled)
    ELSE IF outcome.settled = "rejected" THEN WithRet(s, Thrown(outcome.error))
    ELSE WithRet(s, Fulfilled)

\* names that get(self, key) finds on the Record object itself (its fields
\* and methods) with a truthy value
RecordMembers == {"_data", "_changes", "_virtuals", "changes", "get", "set", "unset",
                  "init", "commit", "save", "validate", "revert", "serialize", "toJSON"}
SelfHas(key) == Len(key) = 1 /\ key[1] \in RecordMembers

\* the proxy's set trap; on a nested proxy the key arrives as path.key or
\* path[key], which lodash reads as the same segments.  lodash set(self, ...)
\* writes the Record object, not _data.
ProxySet(s, key, value) ==
    IF SelfHas(key)
    THEN (IF value = Null THEN WithRet(NoRet(RecordUnset(s, key)), "true")
          ELSE WithRet(s, "true"))
    ELSE WithRet(NoRet(RecordSet(s, key, value)), "true")

\* the proxy's deleteProperty trap; a trap that returns false makes the
\* delete expression of strict-mode code throw a TypeError
ProxyDelete(s, key) ==
    IF SelfHas(key) THEN WithRet(s, "TypeError")
    ELSE LET r == RecordUnset(s, key)
         IN  IF r.ret = "true" THEN r ELSE WithRet(NoRet(r), "TypeError")

\* the get trap hands out a nested proxy for path only when the value there
\* is an object: a key below path is reached through that proxy
ProxyReaches(s, key) ==
    Len(key) = 2 => RecordGet(s, <<key[1]>>).t \in {"object", "array"}

(***************************************************************************)
(* Inputs and state machine of the interface                               *)
(***************************************************************************)
ProxyKeys == Keys \cup {<<"changes">>}
ProxyValues(key) == IF SelfHas(key) THEN {Null} ELSE ValuesFor(key) \cup {Null}

\* calls of set made on a new Record before the calls under study
SetCall(key, value) == [key |-> key, value |-> value]
ApiHistories ==
    {<<>>,
     <<SetCall(<<"a">>, Arr(<<Num(1)>>, EmptyMap))>>,
     <<SetCall(<<"a">>, Num(1))>>,
     <<SetCall(<<"a">>, Num(1)), SetCall(<<"a">>, Num(0))>>,
     <<SetCall(<<"a">>, ObjX(Num(1))), SetCall(<<"a", "x">>, Num(0))>>}

RECURSIVE Replay(_, _)
Replay(s, h) ==
    IF h = <<>> THEN s
    ELSE Replay(NoRet(RecordSet(s, Head(h).key, Head(h).value)), Tail(h))

HandlerSets == {NoHandlers, [save |-> TRUE, validate |-> TRUE]}
Outcomes(s) == {Rejected(e) : e \in Errors} \cup {Resolved(arg) : arg \in CommitArgs(s)}

\* new Record({save, validate, virtuals}, d) and the calls of a history
ApiInit ==
    \E both \in BOOLEAN, d \in InitObjects, h \in ApiHistories, hs \in HandlerSets :
        LET s0 == RecState(Obj(EmptyMap), <<>>,
                           virtualsSetter(OptionsVirtuals(both, both)),
                           Num(100), Bool(FALSE))
            r == Replay(NoRet(RecordCommit(s0, ArgObject(d))), h)
        IN  /\ data = r.data
            /\ changes = r.changes
            /\ virtuals = r.virtuals
            /\ number = r.number
            /\ saved = r.saved
            /\ base = NoBase
            /\ ops = 0
            /\ last = [op |-> "new", key |-> <<>>, value |-> Undef, count |-> 0,
                       arg |-> ArgObject(d), ret |-> "undefined", pre |-> s0,
                       prebase |-> NoBase]
            /\ handlers = hs
            /\ twin = NoTwin
            /\ mapper = NoMapper
            /\ query = NoQuery
            /\ container = NoContainer

Changes ==
    \E count \in {Null} \cup {Num(n) : n \in 0..(Len(changes) + 1)} :
        /\ ops < MaxCalls
        /\ Call("changes", <<>>, count, 0, NoArg, RecordChanges(Cur, count))

Serialize ==
    \E condition \in {"serialize", "save"} :
        /\ ops < MaxCalls
        /\ Call("serialize", <<>>, Str(condition), 0, NoArg, RecordSerialize(Cur, condition))

ToJSON ==
    /\ ops < MaxCalls
    /\ Call("toJSON", <<>>, Undef, 0, NoArg, RecordToJSON(Cur))

Save ==
    \E outcome \in Outcomes(Cur) :
        /\ ops < MaxCalls
        /\ Call("save", <<>>, Undef, 0, outcome, RecordSave(Cur, handlers, outcome))

Validate ==
    \E outcome \in {Rejected(e) : e \in Errors} \cup {Resolved(NoArg)} :
        /\ ops < MaxCalls
        /\ Call("validate", <<>>, Undef, 0, outcome, RecordValidate(Cur, handlers, outcome))

AssignThroughProxy ==
    \E key \in ProxyKeys : \E value \in ProxyValues(key) :
        /\ ops < MaxCalls
        /\ ProxyReaches(Cur, key)
        /\ Call("proxySet", key, value, 0, NoArg, ProxySet(Cur, key, value))

DeleteThroughProxy ==
    \E key \in ProxyKeys :
        /\ ops < MaxCalls
        /\ ProxyReaches(Cur, key)
        /\ Call("proxyDelete", key, Undef, 0, NoArg, ProxyDelete(Cur, key))

ApiNext == Changes \/ Serialize \/ ToJSON \/ Save \/ Validate
           \/ AssignThroughProxy \/ DeleteThroughProxy

ApiSpec == ApiInit /\ [][ApiNext]_vars

(***************************************************************************)
(* Properties of the interface                                             *)
(***************************************************************************)
\* C11 (as claimed): changes(count) returns the last min(count, length)
\* entries of the log, oldest of them first; changes() and changes(null)
\* return the whole log; the call leaves the log (and the data) as it was.
C11_ChangesWindow ==
    last.op = "changes" =>
        LET len == Len(Pre.changes)
            n == IF last.value = Null THEN len ELSE Min(last.value.v, len)
        IN  /\ last.ret = SubSeq(Pre.changes, len - n + 1, len)
            /\ Cur = Pre

\* the condition a serialize / toJSON call ran under
ConditionOfLast ==
    IF last.op = "serialize" /\ last.value = Str("save") THEN "save" ELSE "serialize"

\* C12: serialize('serialize') and toJSON() contain no virtual whose
\* definition has serialize = false, even when its value is stored in _data;
\* serialize('save') contains a virtual iff its definition has save = true
\* and its getter value is neither null nor undefined, whatever its serialize
\* flag; every plain field of _data appears, unchanged, in both.
C12_SerializeSplit ==
    last.op \in {"serialize", "toJSON"} =>
        /\ last.ret.t = "object"
        /\ \A n \in DOMAIN Pre.virtuals :
              /\ (ConditionOfLast = "serialize" /\ ~Pre.virtuals[n].serialize)
                    => n \notin DOMAIN last.ret.v
              /\ ConditionOfLast = "save"
                    => (n \in DOMAIN last.ret.v
                          <=> (Pre.virtuals[n].save /\ ~isNullOrUndefined(VirtualGet(n, Pre))))
              /\ n \in DOMAIN last.ret.v => last.ret.v[n] = VirtualGet(n, Pre)
        /\ \A k \in (DOMAIN Pre.data.v) \ (DOMAIN Pre.virtuals) :
              k \in DOMAIN last.ret.v /\ last.ret.v[k] = Pre.data.v[k]

\* serialize('save') that keeps a virtual with save = true and serialize =
\* false, drops one with save = false that serialize('serialize') shows, and
\* carries a plain field
C12_Witness ==
    /\ last.op = "serialize"
    /\ ConditionOfLast = "save"
    /\ "saved" \in DOMAIN last.ret.v
    /\ ~Pre.virtuals["saved"].serialize
    /\ "saved" \in DOMAIN Pre.data.v
    /\ "hello" \notin DOMAIN last.ret.v
    /\ "a" \in DOMAIN last.ret.v

\* whether the Record has the handler the last save / validate call awaits
HandlerOfLast == IF last.op = "save" THEN handlers.save ELSE handlers.validate

\* C13: when the save handler or the validate handler rejects, save() /
\* validate() rejects with that same error, nothing is committed, and data
\* and change log (and all the rest of the Record) are what they were
\* before the call.
C13_RejectionKeepsState ==
    (last.op \in {"save", "validate"} /\ HandlerOfLast /\ last.arg.settled = "rejected") =>
        /\ last.ret = Thrown(last.arg.error)
        /\ data = Pre.data
        /\ changes = Pre.changes
        /\ Cur = Pre

\* a save() whose handler rejected, called with changes pending
C13_Witness ==
    /\ last.op = "save"
    /\ handlers.save
    /\ last.arg.settled = "rejected"
    /\ last.ret.settled = "rejected"
    /\ Pre.changes # <<>>
    /\ changes # <<>>

\* C14: save() on a Record without a save handler resolves and commits
\* nothing: data and change log are unchanged; save() with a handler that
\* resolves commits the handler's result and leaves changes() empty.
C14_SaveCommitsOnlyWithHandler ==
    last.op = "save" =>
        /\ ~handlers.save => (last.ret = Fulfilled /\ Cur = Pre)
        /\ (handlers.save /\ last.arg.settled = "resolved") =>
              /\ last.ret = Fulfilled
              /\ Cur = NoRet(RecordCommit(Pre, last.arg.arg))
              /\ changes = <<>>
              /\ last.arg.arg.kind = "object" => \A k \in DOMAIN last.arg.arg.val.v
                                                    \ DOMAIN virtuals :
                                                    Prop(data, k) = last.arg.arg.val.v[k]

\* a save() with a handler that resolved to an object, with changes pending
C14_Witness ==
    /\ last.op = "save"
    /\ handlers.save
    /\ last.arg.settled = "resolved"
    /\ last.arg.arg.kind = "object"
    /\ Pre.changes # <<>>
    /\ changes = <<>>
    /\ data # Pre.data

\* C16 (as claimed): assigning null through the proxy to a data path that
\* has a value does what unset(path) does: the field is removed from data,
\* not stored as null, and one 'remove' entry is logged; assigning any value
\* to a path without a value is logged as 'add'.
C16_NullAssignUnsets ==
    (last.op = "proxySet" /\ last.key \in PlainKeys) =>
        /\ (last.value = Null /\ RecordGet(Pre, last.key) # Undef) =>
              /\ RecordGet(Cur, last.key) = Undef
              /\ Len(changes) = Len(Pre.changes) + 1
              /\ Newest.operation = "remove"
              /\ Newest.key = last.key
        /\ RecordGet(Pre, last.key) = Undef =>
              /\ Len(changes) = Len(Pre.changes) + 1
              /\ Newest.operation = "add"
              /\ Newest.key = last.key

\* C17 (as claimed): deleting a data path through the proxy: a path with a
\* value is unset (the value is gone, one 'remove' entry is logged, and
\* reverting that entry brings the data back); a path without a value makes
\* the delete throw a TypeError and leaves data and change log as they were.
C17_DeleteDelegates ==
    (last.op = "proxyDelete" /\ last.key \in PlainKeys) =>
        /\ RecordGet(Pre, last.key) # Undef =>
              /\ last.ret = "true"
              /\ RecordGet(Cur, last.key) = Undef
              /\ Len(changes) = Len(Pre.changes) + 1
              /\ Newest.operation = "remove"
              /\ Newest.key = last.key
              /\ NoRet(RecordRevert(Cur, 1)) = Pre
        /\ RecordGet(Pre, last.key) = Undef =>
              /\ last.ret = "TypeError"
              /\ Cur = Pre

(***************************************************************************)
(* Two Records: new Record(record).  init copies _data with                *)
(* Object.assign({}, data._data): the copy has its own top level, and      *)
(* every object below it is the very object the first Record holds.  Only  *)
(* `a` holds an object here; twin.aliased says that both Records hold the  *)
(* same one.  A call with a nested key changes that object in place, a     *)
(* call with the key `a` gives the called Record another value under `a`.  *)
(* The histories keep objects out of the `old` of the copied log entries,  *)
(* so that revert installs no object the two logs share.                   *)
(***************************************************************************)
CloneHistories ==
    {<<SetCall(<<"a">>, ObjX(Num(1)))>>,
     <<SetCall(<<"a">>, Arr(<<Num(1)>>, EmptyMap))>>,
     <<SetCall(<<"a">>, ObjX(Num(1))), SetCall(<<"a", "x">>, Num(0))>>,
     <<SetCall(<<"a">>, Num(1))>>}

TwinState == RecState(twin.data, twin.changes, twin.virtuals, number, saved)

\* new Record(record) after new Record({save, validate, virtuals}, d) and
\* the calls of a history
CloneInit ==
    \E both \in BOOLEAN, d \in InitObjects, h \in CloneHistories, hs \in HandlerSets :
        LET s0 == RecState(Obj(EmptyMap), <<>>,
                           virtualsSetter(OptionsVirtuals(both, both)),
                           Num(100), Bool(FALSE))
            r == Replay(NoRet(RecordCommit(s0, ArgObject(d))), h)
            t == RecordInit(RecState(Obj(EmptyMap), <<>>, EmptyMap, r.number, r.saved),
                            ArgRecord(r))
        IN  /\ data = r.data
            /\ changes = r.changes
            /\ virtuals = r.virtuals
            /\ number = r.number
            /\ saved = r.saved
            /\ base = NoBase
            /\ ops = 0
            /\ handlers = hs
            /\ mapper = NoMapper
            /\ query = NoQuery
            /\ container = NoContainer
            /\ twin = [exists |-> TRUE, data |-> t.data, changes |-> t.changes,
                       virtuals |-> t.virtuals, handlers |-> hs,
                       aliased |-> instanceofObject(Prop(r.data, "a"))]
            /\ last = [op |-> "clone", side |-> "twin", key |-> <<>>, value |-> Undef,
                       ret |-> "undefined", pre |-> r, preTwin |-> NoRet(t)]

\* the object under `a` after a call that changed it in place, seen from
\* the other Record
Seen(otherData, calledData) ==
    Obj(MapPut(otherData.v, "a", Prop(calledData, "a")))

\* a call on one of the two Records; path is the path the call wrote
CloneCall(side, op, key, value, path, r) ==
    LET inPlace == twin.aliased /\ Len(path) = 2
    IN  /\ ops < MaxCalls
        /\ ops' = ops + 1
        /\ IF side = "this"
           THEN /\ data' = r.data
                /\ changes' = r.changes
                /\ twin' = [twin EXCEPT !.aliased = inPlace,
                                        !.data = IF inPlace THEN Seen(twin.data, r.data)
                                                 ELSE twin.data]
           ELSE /\ twin' = [twin EXCEPT !.aliased = inPlace,
                                        !.data = r.data,
                                        !.changes = r.changes]
                /\ data' = IF inPlace THEN Seen(data, r.data) ELSE data
                /\ changes' = changes
        /\ number' = r.number
        /\ saved' = r.saved
        /\ last' = [op |-> op, side |-> side, key |-> key, value |-> value,
                    ret |-> r.ret, pre |-> Cur, preTwin |-> TwinState]
        /\ UNCHANGED <<virtuals, base, handlers, mapper, query, container>>

SideState(side) == IF side = "this" THEN Cur ELSE TwinState

CloneSet ==
    \E side \in {"this", "twin"}, key \in PlainKeys : \E value \in ValuesFor(key) :
        CloneCall(side, "set", key, value, key, RecordSet(SideState(side), key, value))

CloneUnset ==
    \E side \in {"this", "twin"}, key \in PlainKeys :
        CloneCall(side, "unset", key, Undef, key, RecordUnset(SideState(side), key))

\* revert(1) with a change to undo
CloneRevert ==
    \E side \in {"this", "twin"} :
        LET s == SideState(side)
        IN  /\ s.changes # <<>>
            /\ CloneCall(side, "revert", <<>>, Undef, s.changes[Len(s.changes)].key,
                         RecordRevert(s, 1))

CloneNext == CloneSet \/ CloneUnset \/ CloneRevert

CloneSpec == CloneInit /\ [][CloneNext]_vars

\* C15 (as claimed): a Record constructed from another Record starts with
\* equal data, change log, virtuals and save / validate handlers, and from
\* then on every set, unset or revert on either of the two, at a top-level
\* or a nested path, leaves the other's data and changes() as they were.
C15_CloneIndependent ==
    twin.exists =>
        /\ last.op = "clone" =>
              /\ twin.data = data
              /\ twin.changes = changes
              /\ twin.virtuals = virtuals
              /\ twin.handlers = handlers
        /\ (last.op \in {"set", "unset", "revert"} /\ last.side = "this") =>
              /\ twin.data = last.preTwin.data
              /\ twin.changes = last.preTwin.changes
        /\ (last.op \in {"set", "unset", "revert"} /\ last.side = "twin") =>
              /\ data = last.pre.data
              /\ changes = last.pre.changes

(***************************************************************************)
(* Mapper (src/src/Mapper.ts) over an adapter.  An operation is an async   *)
(* function: it runs up to an await, and goes on when what it awaits has   *)
(* settled.  mapper.todo holds the steps the operation in progress still   *)
(* has to take, mapper.trace the hooks it emitted, the calls of            *)
(* record.validate() and the adapter calls it made, in order.  The Record  *)
(* the operation works on is the Record of the variables above.            *)
(***************************************************************************)
MaxRuns == 2

Ids == {"i1", "i2"}
NoDoc == [exists |-> FALSE, n |-> 0, a |-> Undef]
Doc(n, a) == [exists |-> TRUE, n |-> n, a |-> a]

\* the revision of a document that was written n times
RevOf(n) == Str(ToString(n))

\* adapter.decode of a stored document: id, rev and the fields it has
DocData(id, doc) ==
    Obj([k \in {"id", "rev"} \cup (IF doc.a = Undef THEN {} ELSE {"a"}) |->
            IF k = "id" THEN Str(id) ELSE IF k = "rev" THEN RevOf(doc.n) ELSE doc.a])

\* Mapper.createRecord(data): the Mapper of the tests has no virtuals
createRecord(d) ==
    NoRet(RecordCommit(RecState(Obj(EmptyMap), <<>>, EmptyMap, Undef, Undef), ArgObject(d)))

Hooks == {"beforeGet", "afterGet", "beforeValidate", "afterValidate",
          "beforeInsert", "afterInsert", "beforeUpdate", "afterUpdate"}
Writes == {"adapter.insert", "adapter.update", "adapter.replace"}

\* Mapper.get
GetSteps == <<"beforeGet", "adapter.get", "afterGet">>

\* Mapper.validate, when the caller asks for it
ValidateSteps(validate) ==
    IF validate THEN <<"beforeValidate", "validate", "afterValidate">> ELSE <<>>

\* A plausible slip: afterGet is emitted before afterUpdate.
UpdateStepsAfterGetFirst(validate) ==
    ValidateSteps(validate)
        \o <<"beforeUpdate", "adapter.update", "response", "afterGet", "afterUpdate">>

\* Mapper.update from its validate on; "response" is the adapter's answer
\* and the commit that follows it
UpdateSteps(validate) ==
    ValidateSteps(validate)
        \o <<"beforeUpdate", "adapter.update", "response", "afterUpdate", "afterGet">>

\* A plausible slip: beforeInsert is emitted before the validation.
InsertStepsValidatesLate(validate) ==
    <<"beforeInsert">> \o ValidateSteps(validate)
        \o <<"adapter.insert", "response", "afterInsert", "afterGet">>

\* Mapper.insert from its validate on
InsertSteps(validate) ==
    ValidateSteps(validate)
        \o <<"beforeInsert", "adapter.insert", "response", "afterInsert", "afterGet">>

\* Mapper.replace from its validate on
ReplaceSteps(validate) ==
    ValidateSteps(validate)
        \o <<"beforeUpdate", "adapter.replace", "response", "afterUpdate", "afterGet">>

\* Mapper.update(data) with plain data: get, merge, then the update
UpdateDataSteps(validate) == GetSteps \o <<"merge">> \o UpdateSteps(validate)

\* record.id && record.rev
HasIdAndRev(s) == Truthy(RecordGet(s, <<"id">>)) /\ Truthy(RecordGet(s, <<"rev">>))

\* A plausible slip: force is not looked at, an unchanged record is always
\* fetched and compared.
SaveStepsIgnoresForce(s, validate, force) ==
    IF HasIdAndRev(s)
    THEN (IF Len(RecordChanges(s, Null).ret) = 0
          THEN GetSteps \o <<"compareRev">>
          ELSE UpdateSteps(validate))
    ELSE InsertSteps(validate)

\* Mapper.save up to its first await: the route it takes
SaveSteps(s, validate, force) ==
    IF HasIdAndRev(s)
    THEN (IF Len(RecordChanges(s, Null).ret) = 0 /\ ~force
          THEN GetSteps \o <<"compareRev">>
          ELSE UpdateSteps(validate))
    ELSE InsertSteps(validate)

\* lodash merge(old, data) on the fetched Record, data holding primitives:
\* assignMergeValue writes a key through the proxy when the value is not
\* undefined and differs from what the Record has
RECURSIVE MergeKeys(_, _, _)
MergeKeys(s, d, keys) ==
    IF keys = <<>> THEN s
    ELSE LET k == Head(keys)
             value == Prop(d, k)
             s1 == IF k \in DOMAIN d.v /\ value # Undef /\ RecordGet(s, <<k>>) # value
                   THEN NoRet(ProxySet(s, <<k>>, value))
                   ELSE s
         IN  MergeKeys(s1, d, Tail(keys))

Merge(s, d) == MergeKeys(s, d, <<"id", "rev", "a">>)

\* the id a call hands to the adapter, as a key of the collection
IsId(v) == v.t = "string" /\ v.v \in Ids

\* the key ArangoDB gives a document saved without one
FreeIds(store) == {i \in Ids : ~store[i].exists}
NewId(store) == IF ~store["i1"].exists THEN "i1" ELSE "i2"

NoFetched == [exists |-> FALSE, data |-> Undef]

\* what the caller did to the record while the operation was in progress
NoChange == [made |-> FALSE, op |-> "none", value |-> Undef]

\* what an AssertionError carries
NoDetail == [path |-> "", expected |-> Undef, actual |-> Undef]

\* no operation in progress; before is the collection as the operation that
\* comes finds it
Idle(store) ==
    [todo |-> <<>>, trace |-> <<>>, op |-> "none", validate |-> TRUE, force |-> FALSE,
     arg |-> Undef, reqId |-> Undef, rev |-> Null, payload |-> Undef, writing |-> "none",
     fetched |-> NoFetched, found |-> 0, result |-> "idle", error |-> "none",
     detail |-> NoDetail, store |-> store, before |-> store, meanwhile |-> NoChange]

\* the operation goes on with the steps rest, or has resolved
Continue(m, rest) ==
    [m EXCEPT !.todo = rest, !.result = IF rest = <<>> THEN "resolved" ELSE "pending"]

\* the operation rejects with e
Reject(m, e) == [m EXCEPT !.todo = <<>>, !.result = "rejected", !.error = e]

\* throw new AssertionError(path, expected, actual)
AssertionError(m, path, expected, actual) ==
    [Reject(m, "AssertionError") EXCEPT
        !.detail = [path |-> path, expected |-> expected, actual |-> actual]]

Fired(m, event) == [m EXCEPT !.trace = Append(m.trace, event)]

(***************************************************************************)
(* Inputs and state machine of the Mapper                                  *)
(***************************************************************************)
PersonData(id, rev, a) ==
    Obj([k \in (IF id = Undef THEN {} ELSE {"id"}) \cup (IF rev = Undef THEN {} ELSE {"rev"})
               \cup {"a"} |->
            IF k = "id" THEN id ELSE IF k = "rev" THEN rev ELSE a])

\* records of the caller: new, new with an id, and fetched at revision 1
CallerData == {PersonData(Undef, Undef, Num(1)),
               PersonData(Str("i1"), Undef, Num(1)),
               PersonData(Str("i1"), RevOf(1), Num(1))}
StoredDocs == {NoDoc, Doc(1, Num(1)), Doc(2, Num(1))}
\* the revision a caller of replace asks for: none, or the one it fetched
ReplaceRevs == {Null, RevOf(1)}

MapperInit ==
    \E d \in CallerData, doc \in StoredDocs, v \in BOOLEAN :
        LET r == createRecord(d)
        IN  /\ data = r.data
            /\ changes = r.changes
            /\ virtuals = r.virtuals
            /\ number = r.number
            /\ saved = r.saved
            /\ base = NoBase
            /\ ops = 0
            /\ handlers = [save |-> TRUE, validate |-> v]
            /\ twin = NoTwin
            /\ mapper = Idle([i \in Ids |-> IF i = "i1" THEN doc ELSE NoDoc])
            /\ query = NoQuery
            /\ container = NoContainer
            /\ last = [op |-> "createRecord", key |-> <<>>, value |-> Undef, count |-> 0,
                       arg |-> ArgObject(d), ret |-> "undefined", pre |-> r,
                       prebase |-> NoBase]

\* the call of a Mapper method on the Record rec, up to its first await
StartWith(name, validate, force, arg, reqId, rev, steps, rec) ==
    /\ mapper.todo = <<>>
    /\ ops < MaxRuns
    /\ ops' = ops + 1
    /\ data' = rec.data
    /\ changes' = rec.changes
    /\ mapper' = [Idle(mapper.store) EXCEPT !.todo = steps, !.op = name,
                                            !.validate = validate, !.force = force,
                                            !.arg = arg, !.reqId = reqId, !.rev = rev,
                                            !.result = "pending"]
    /\ last' = [op |-> name, key |-> <<>>, value |-> Undef, count |-> 0,
                arg |-> NoArg, ret |-> "pending", pre |-> rec, prebase |-> NoBase]
    /\ UNCHANGED <<virtuals, number, saved, base, handlers, twin, query, container>>

\* the same for the methods that take no revision
Start(name, validate, force, arg, reqId, steps, rec) ==
    StartWith(name, validate, force, arg, reqId, Null, steps, rec)

MapperSave ==
    \E validate \in BOOLEAN, force \in BOOLEAN :
        Start("save", validate, force, Undef, RecordGet(Cur, <<"id">>),
              SaveSteps(Cur, validate, force), Cur)

MapperGet ==
    \E id \in Ids :
        Start("get", TRUE, FALSE, Undef, Str(id), GetSteps, Cur)

MapperInsert ==
    \E validate \in BOOLEAN :
        Start("insert", validate, FALSE, Undef, Undef, InsertSteps(validate), Cur)

MapperInsertData ==
    \E validate \in BOOLEAN, d \in {PersonData(Undef, Undef, Num(0))} :
        Start("insert", validate, FALSE, d, Undef, InsertSteps(validate), createRecord(d))

MapperUpdate ==
    \E validate \in BOOLEAN :
        Start("update", validate, FALSE, Undef, Undef, UpdateSteps(validate), Cur)

\* update(data) with plain data, without a revision and with the one the
\* caller fetched
MapperUpdateData ==
    \E validate \in BOOLEAN,
       d \in {PersonData(Str("i1"), Undef, Num(0)), PersonData(Str("i1"), RevOf(1), Num(0))} :
        Start("updateData", validate, FALSE, d, Prop(d, "id"), UpdateDataSteps(validate), Cur)

\* replace(id, data, validate) and replace(id, data, validate, rev)
MapperReplace ==
    \E validate \in BOOLEAN, d \in {PersonData(Undef, Undef, Num(0))}, rev \in ReplaceRevs :
        StartWith("replace", validate, FALSE, d, Str("i1"), rev, ReplaceSteps(validate),
                  createRecord(ObjectAssign(d)))

MapperFindAll ==
    Start("findAll", TRUE, FALSE, Undef, Undef, <<"adapter.findAll">>, Cur)

\* between two operations the caller changes the record
CallerSets ==
    /\ mapper.todo = <<>>
    /\ ops < MaxRuns
    /\ ops' = ops + 1
    /\ LET r == RecordSet(Cur, <<"a">>, Num(0))
       IN  /\ data' = r.data
           /\ changes' = r.changes
           /\ last' = [op |-> "set", key |-> <<"a">>, value |-> Num(0), count |-> 0,
                       arg |-> NoArg, ret |-> r.ret, pre |-> Cur, prebase |-> NoBase]
    /\ mapper' = Idle(mapper.store)
    /\ UNCHANGED <<virtuals, number, saved, base, handlers, twin, query, container>>

\* a step of the operation in progress that leaves the Record alone
StepTo(m) ==
    /\ mapper' = m
    /\ UNCHANGED <<data, changes, virtuals, number, saved, base, last, ops, handlers, twin, query, container>>

\* a step of the operation in progress that leaves the Record as r
StepWith(m, r) ==
    /\ mapper' = m
    /\ data' = r.data
    /\ changes' = r.changes
    /\ UNCHANGED <<virtuals, number, saved, base, last, ops, handlers, twin, query, container>>

Running == mapper.todo # <<>>
Step == Head(mapper.todo)
Rest == Tail(mapper.todo)

\* await this.emit(hook, ...): the listeners run; one of them may reject
Emit ==
    /\ Running
    /\ Step \in Hooks
    /\ \E ok \in BOOLEAN :
          StepTo(IF ok THEN Continue(Fired(mapper, Step), Rest)
                 ELSE Reject(Fired(mapper, Step), "HookError"))

\* record.validate() inside Mapper.validate
ValidateRecord ==
    /\ Running
    /\ Step = "validate"
    /\ \E outcome \in {Resolved(NoArg), Rejected("ValidationError")} :
          LET r == RecordValidate(Cur, handlers, outcome)
          IN  StepTo(IF r.ret.settled = "resolved" THEN Continue(Fired(mapper, Step), Rest)
                     ELSE Reject(Fired(mapper, Step), r.ret.error))

\* A plausible slip: afterGet is emitted whether the adapter found the
\* document or not.
AdapterGetFiresAfterGet ==
    /\ Running
    /\ Step = "adapter.get"
    /\ LET id == mapper.reqId
           m == Fired(mapper, Step)
       IN  IF IsId(id) /\ mapper.store[id.v].exists
           THEN StepTo(Continue([m EXCEPT !.fetched =
                                    [exists |-> TRUE,
                                     data |-> createRecord(DocData(id.v, mapper.store[id.v])).data]],
                                Rest))
           ELSE StepTo(Reject(Fired(m, "afterGet"), "NotFoundError"))

\* await this.adapter.get(collection, id) and createRecord(response)
AdapterGet ==
    /\ Running
    /\ Step = "adapter.get"
    /\ LET id == mapper.reqId
           m == Fired(mapper, Step)
       IN  IF IsId(id) /\ mapper.store[id.v].exists
           THEN StepTo(Continue([m EXCEPT !.fetched =
                                    [exists |-> TRUE,
                                     data |-> createRecord(DocData(id.v, mapper.store[id.v])).data]],
                                Rest))
           ELSE StepTo(Reject(m, "NotFoundError"))

\* A plausible slip: the fetched revision is not compared, the record is
\* written whenever the fetch succeeded.
CompareRevAlwaysUpdates ==
    /\ Running
    /\ Step = "compareRev"
    /\ StepTo(Continue(mapper, UpdateSteps(mapper.validate) \o Rest))

\* Mapper.save: the callback on the fetched record
CompareRev ==
    /\ Running
    /\ Step = "compareRev"
    /\ IF Prop(mapper.fetched.data, "rev") = RecordGet(Cur, <<"rev">>)
       THEN StepTo(Continue(mapper, Rest))
       ELSE StepTo(Continue(mapper, UpdateSteps(mapper.validate) \o Rest))

\* Mapper.update(data): merge(old, data); record = old
MergeData ==
    /\ Running
    /\ Step = "merge"
    /\ StepWith(Continue(mapper, Rest),
                Merge(RecState(mapper.fetched.data, <<>>, EmptyMap, Undef, Undef), mapper.arg))

\* the call of adapter.insert / update / replace with record.serialize('save')
AdapterWrite ==
    /\ Running
    /\ Step \in Writes
    /\ StepTo(Continue([Fired(mapper, Step) EXCEPT
                            !.payload = RecordSerialize(Cur, "save").ret,
                            !.writing = Step,
                            !.reqId = IF Step = "adapter.update" THEN RecordGet(Cur, <<"id">>)
                                      ELSE mapper.reqId],
                       Rest))

\* what the collection does with an insert
InsertResponse ==
    LET p == mapper.payload
        hasId == ~isNullOrUndefined(Prop(p, "id"))
        id == IF hasId THEN Prop(p, "id").v ELSE NewId(mapper.store)
        doc == Doc(1, Prop(p, "a"))
    IN  /\ hasId \/ FreeIds(mapper.store) # {}
        /\ IF hasId /\ mapper.store[id].exists
           THEN StepTo(Reject(mapper, "AlreadyExistsError"))
           ELSE StepWith(Continue([mapper EXCEPT !.store[id] = doc], Rest),
                         NoRet(RecordInit(Cur, ArgObject(DocData(id, doc)))))

\* what the collection does with an update (keepNull: false) or a replace.
\* update asks for the revision of the data it sends, replace for the one
\* its caller named; the collection answers a revision other than its own
\* with error 1200, which update turns into an AssertionError and replace
\* hands to handleError, which knows 1202, 1203 and 1210 only
WriteResponse ==
    LET p == mapper.payload
        id == mapper.reqId
        old == mapper.store[id.v]
        rev == Prop(p, "rev")
        a == IF mapper.writing = "adapter.replace" THEN Prop(p, "a")
             ELSE IF ~HasKey(p, "a") THEN old.a
             ELSE IF Prop(p, "a") = Null THEN Undef ELSE Prop(p, "a")
        doc == Doc(old.n + 1, a)
    IN  IF ~IsId(id) \/ ~mapper.store[id.v].exists
        THEN StepTo(Reject(mapper, "NotFoundError"))
        ELSE IF mapper.writing = "adapter.update" /\ Truthy(rev) /\ rev # RevOf(old.n)
        THEN StepTo(AssertionError(mapper, "rev", rev, Str("something different")))
        ELSE IF mapper.writing = "adapter.replace" /\ Truthy(mapper.rev)
                /\ mapper.rev # RevOf(old.n)
        THEN StepTo(Reject(mapper, "ArangoError"))
        ELSE StepWith(Continue([mapper EXCEPT !.store[id.v] = doc], Rest),
                      NoRet(RecordCommit(Cur, ArgObject(DocData(id.v, doc)))))

\* the adapter's promise settles; on success record.init(result) /
\* record.commit(result) follow at once
Response ==
    /\ Running
    /\ Step = "response"
    /\ IF mapper.writing = "adapter.insert" THEN InsertResponse ELSE WriteResponse

\* await this.adapter.findAll(collection, q): afterGet follows per record
AdapterFindAll ==
    /\ Running
    /\ Step = "adapter.findAll"
    /\ \E n \in 0..2 :
          StepTo(Continue([Fired(mapper, Step) EXCEPT !.found = n],
                          [i \in 1..n |-> "afterGet"]))

MapperNext ==
    \/ MapperSave \/ MapperGet \/ MapperInsert \/ MapperInsertData \/ MapperUpdate
    \/ MapperUpdateData \/ MapperReplace \/ MapperFindAll \/ CallerSets
    \/ Emit \/ ValidateRecord \/ AdapterGet \/ CompareRev \/ MergeData
    \/ AdapterWrite \/ Response \/ AdapterFindAll

MapperSpec == MapperInit /\ [][MapperNext]_vars

(***************************************************************************)
(* Properties of the Mapper                                                *)
(***************************************************************************)
Count(event) == Cardinality({i \in DOMAIN mapper.trace : mapper.trace[i] = event})
InTrace(event) == Count(event) > 0
HasResolved == mapper.result = "resolved"

\* the fetched record carries the revision the caller's record had
SameRev ==
    /\ mapper.fetched.exists
    /\ Prop(mapper.fetched.data, "rev") = RecordGet(Pre, <<"rev">>)

\* C18: Mapper.save on a Record with id and rev, without pending changes
\* and without force, makes exactly one adapter get and compares the
\* revisions: when the fetched rev equals the record's rev no insert, update
\* or replace is issued, only beforeGet and then afterGet fire, and the
\* record's data and rev stay as they were; only when the revisions differ
\* does the save go on to the update.
C18_SaveShortCircuit ==
    (mapper.op = "save" /\ HasIdAndRev(Pre) /\ Pre.changes = <<>> /\ ~mapper.force) =>
        /\ Count("adapter.get") <= 1
        /\ IsPrefix(mapper.trace, GetSteps) \/ IsPrefix(GetSteps, mapper.trace)
        /\ ~InTrace("adapter.insert") /\ ~InTrace("adapter.replace")
        /\ Len(mapper.trace) > Len(GetSteps) => (mapper.fetched.exists /\ ~SameRev)
        /\ SameRev => (Cur = Pre /\ ~InTrace("adapter.update"))
        /\ (SameRev /\ HasResolved) => mapper.trace = GetSteps
        /\ (~SameRev /\ HasResolved) => (Count("adapter.get") = 1 /\ Count("adapter.update") = 1)

\* a save that resolved after the fetch found the record's revision
C18_Witness ==
    /\ mapper.op = "save"
    /\ HasIdAndRev(Pre) /\ Pre.changes = <<>> /\ ~mapper.force
    /\ HasResolved
    /\ SameRev
    /\ mapper.trace = <<"beforeGet", "adapter.get", "afterGet">>

ValidationEvents == {"beforeValidate", "validate", "afterValidate"}

\* C19: Mapper.save routes by the record's state: a record without id or
\* without rev is inserted and never updated; a record with both that has a
\* pending change, or that is saved with force, is written with
\* adapter.update without a fetch before it; with validate = false neither
\* record.validate() runs nor beforeValidate / afterValidate fire.
C19_SaveRoutes ==
    mapper.op = "save" =>
        /\ ~HasIdAndRev(Pre) =>
              /\ ~InTrace("adapter.update") /\ ~InTrace("adapter.replace")
              /\ ~InTrace("adapter.get")
              /\ HasResolved => Count("adapter.insert") = 1
        /\ (HasIdAndRev(Pre) /\ (Pre.changes # <<>> \/ mapper.force)) =>
              /\ ~InTrace("adapter.get") /\ ~InTrace("beforeGet")
              /\ ~InTrace("adapter.insert") /\ ~InTrace("adapter.replace")
              /\ HasResolved => Count("adapter.update") = 1
        /\ ~mapper.validate => \A e \in ValidationEvents : ~InTrace(e)

\* a forced save without validation of an unchanged record with id and rev
\* that resolved
C19_Witness ==
    /\ mapper.op = "save"
    /\ HasIdAndRev(Pre) /\ Pre.changes = <<>>
    /\ mapper.force /\ ~mapper.validate
    /\ HasResolved
    /\ mapper.trace = <<"beforeUpdate", "adapter.update", "afterUpdate", "afterGet">>

\* the order the constructor's comment documents, with the adapter call and
\* record.validate() at their places
Documented(op) ==
    LET v == IF mapper.validate THEN <<"beforeValidate", "validate", "afterValidate">>
             ELSE <<>>
        get == <<"beforeGet", "adapter.get", "afterGet">>
        update == v \o <<"beforeUpdate", "adapter.update", "afterUpdate", "afterGet">>
    IN  CASE op = "get" -> get
          [] op = "insert" -> v \o <<"beforeInsert", "adapter.insert", "afterInsert", "afterGet">>
          [] op = "update" -> update
          [] op = "replace" -> v \o <<"beforeUpdate", "adapter.replace", "afterUpdate", "afterGet">>
          [] op = "updateData" -> get \o update
          [] op = "findAll" -> <<"adapter.findAll">> \o [i \in 1..mapper.found |-> "afterGet"]
          [] OTHER -> mapper.trace

\* C20: for each Mapper operation the hooks fire in the documented order,
\* each awaited before the next step: what has been emitted and called so
\* far is always a beginning of the documented sequence, and the whole of it
\* once the operation has resolved (for findAll: afterGet once per record
\* returned; for update with plain data: the get, then the update).
C20_HookOrder ==
    mapper.op \in {"get", "insert", "update", "replace", "updateData", "findAll"} =>
        /\ (mapper.op = "findAll" /\ ~InTrace("adapter.findAll")) => mapper.trace = <<>>
        /\ (mapper.op # "findAll" \/ InTrace("adapter.findAll")) =>
              IsPrefix(mapper.trace, Documented(mapper.op))
        /\ HasResolved => mapper.trace = Documented(mapper.op)

\* an update with plain data that resolved after all its hooks
C20_Witness ==
    /\ mapper.op = "updateData"
    /\ mapper.validate
    /\ HasResolved
    /\ Len(mapper.trace) = 10
    /\ changes = <<>>

\* the operation rejected at record.validate(): record.validate() is what it
\* did last and nothing is left of it
ValidationFailed ==
    /\ mapper.op \in {"insert", "update", "replace", "updateData"}
    /\ mapper.trace # <<>>
    /\ mapper.trace[Len(mapper.trace)] = "validate"
    /\ mapper.todo = <<>>

\* C21: when validation rejects during insert, update or replace, the
\* operation rejects with the validation error, neither afterValidate nor
\* beforeInsert nor beforeUpdate fires, no adapter write is issued, the
\* collection keeps its documents and the record is not committed: its data
\* and its log are what they were when the operation was called.
C21_ValidationRejects ==
    ValidationFailed =>
        /\ mapper.result = "rejected"
        /\ mapper.error = "ValidationError"
        /\ \A e \in {"afterValidate", "beforeInsert", "beforeUpdate",
                      "afterInsert", "afterUpdate"} \cup Writes : ~InTrace(e)
        /\ mapper.payload = Undef
        /\ mapper.op # "updateData" => Cur = Pre

\* an insert of a changed record that validation rejected
C21_Witness ==
    /\ ValidationFailed
    /\ mapper.op = "insert"
    /\ mapper.error = "ValidationError"
    /\ changes # <<>>
    /\ mapper.trace = <<"beforeValidate", "validate">>

(***************************************************************************)
(* The Query (src/src/Query.ts) and its WhereQuery                         *)
(*                                                                         *)
(* A property name is the sequence of its dot-separated pieces ('a.b' is   *)
(* <<"a", "b">>).  The objects of a query keep their properties in         *)
(* insertion order, which is the order for-in visits them in: an object is *)
(* the sequence of its (name, value) pairs, an array the sequence of its   *)
(* elements.                                                               *)
(***************************************************************************)
MaxBuild == 2

Pair(k, x) == [k |-> k, x |-> x]
Dict(pairs) == [t |-> "object", v |-> pairs]
List(elems) == [t |-> "array", v |-> elems]

\* o[k] of an object of a query
DictHas(o, k) == \E i \in DOMAIN o.v : o.v[i].k = k
DictGet(o, k) ==
    IF DictHas(o, k) THEN o.v[CHOOSE i \in DOMAIN o.v : o.v[i].k = k].x ELSE Undef

\* o[k] = x: a new property comes last, an old one keeps its place
DictPut(o, k, x) ==
    IF DictHas(o, k)
    THEN Dict([i \in DOMAIN o.v |-> IF o.v[i].k = k THEN Pair(k, x) ELSE o.v[i]])
    ELSE Dict(Append(o.v, Pair(k, x)))

COMPARISON_OPERATORS == {"$eq", "$gt", "$gte", "$in", "$lt", "$lte", "$ne", "$nin"}
ELEMENT_OPERATORS == {"$exists"}
LOGIC_OPERATORS == {"$and", "$or"}

\* this.data as the constructor makes it; $sort and $fields are absent
NewData == [limit |-> Num(0), skip |-> Num(0), where |-> Dict(<<>>),
            sort |-> Undef, fields |-> Undef]

\* a WhereQuery: its key and its logicalOperator
WhereQuery(key, logicalOperator) ==
    [exists |-> TRUE, key |-> key, logicalOperator |-> logicalOperator]
NoWhereQuery == [exists |-> FALSE, key |-> <<>>, logicalOperator |-> Undef]

\* new Query(): no WhereQuery handed out, no predicate object made
NewQuery == [data |-> NewData, ctx |-> NoWhereQuery, made |-> 0]

\* what a call returns: the Query itself, a WhereQuery, or the Error thrown
Returned(q, r) == [q |-> q, ret |-> r]

\* {[key]: {[operator]: value}}
Predicate(key, operator, value) ==
    Dict(<<Pair(key, Dict(<<Pair(<<operator>>, value)>>))>>)

\* data.$where[name] as a sequence: none when the branch is absent
Branch(d, name) ==
    IF DictHas(d.where, <<name>>) THEN DictGet(d.where, <<name>>).v ELSE <<>>

\* data.$where[name].push(x), the array made first where it is absent
Push(d, name, x) ==
    [d EXCEPT !.where = DictPut(d.where, <<name>>, List(Append(Branch(d, name), x)))]

\* Query.add
QueryAdd(q, key, operator, value, logicalOperator) ==
    IF operator.t # "string" \/ operator.v \notin COMPARISON_OPERATORS \cup ELEMENT_OPERATORS
    THEN Returned(q, "Invalid operator")
    ELSE IF Truthy(logicalOperator) /\ logicalOperator.v \notin LOGIC_OPERATORS
    THEN Returned(q, "Invalid logical operator")
    ELSE LET name == IF Truthy(logicalOperator) THEN logicalOperator.v ELSE "$and"
         IN  Returned([q EXCEPT !.data = Push(q.data, name, Predicate(key, operator.v, value)),
                                !.made = q.made + 1], "this")

\* Query.where: operator, value and logicalOperator are not read
QueryWhere(q, key, operator, value, logicalOperator) ==
    Returned([q EXCEPT !.ctx = WhereQuery(key, Null)], "WhereQuery")

\* Query.and
QueryAnd(q, key) == QueryWhere(q, key, Undef, Undef, Undef)

\* Query.or: an array, also an empty one, is truthy; pop() of an empty array
\* is undefined
QueryOr(q, key) ==
    IF ~DictHas(q.data.where, <<"$and">>)
    THEN Returned(q, "Cannot use or() without using where() first")
    ELSE LET and == Branch(q.data, "$and")
             popped == IF and = <<>> THEN Undef ELSE and[Len(and)]
             rest == IF and = <<>> THEN <<>> ELSE SubSeq(and, 1, Len(and) - 1)
             d1 == [q.data EXCEPT !.where = DictPut(q.data.where, <<"$and">>, List(rest))]
         IN  Returned([q EXCEPT !.data = Push(d1, "$or", popped),
                                !.ctx = WhereQuery(key, Str("$or"))], "WhereQuery")

\* WhereQuery.set
WhereQuerySet(q, operator, value) ==
    QueryWhere(q, q.ctx.key, Str(operator), value, q.ctx.logicalOperator)

\* WhereQuery.eq, ne, gt, gte, lt, lte, in, nin and exists, named by their
\* operator; exists(value = true)
WhereQueryCompare(q, operator, value) ==
    WhereQuerySet(q, operator, IF operator = "$exists" /\ value = Undef THEN Bool(TRUE) ELSE value)

\* Query.limit, Query.skip
QueryLimit(q, value) == Returned([q EXCEPT !.data.limit = value], "this")
QuerySkip(q, value) == Returned([q EXCEPT !.data.skip = value], "this")

\* A plausible slip: the direction is stored as it was given.
SortOneKeepsOrder(q, key, order) ==
    LET o == IF order = Undef THEN Num(1) ELSE order
    IN  IF o = Num(0) THEN Returned(q, "Invalid sorting order: 0")
        ELSE LET s == IF q.data.sort = Undef THEN <<>> ELSE q.data.sort.v
             IN  Returned([q EXCEPT !.data.sort = List(Append(s, List(<<key, o>>)))], "this")

\* Query.sort(key, order) with a string key; order is a number or omitted
SortOne(q, key, order) ==
    LET o == IF order = Undef THEN Num(1) ELSE order
    IN  IF o = Num(0) THEN Returned(q, "Invalid sorting order: 0")
        ELSE LET s == IF q.data.sort = Undef THEN <<>> ELSE q.data.sort.v
                 n == IF o.v > 0 THEN Num(1) ELSE Num(-1)
             IN  Returned([q EXCEPT !.data.sort = List(Append(s, List(<<key, n>>)))], "this")

\* the loop of Query.sort over an array of [key, order] entries: the first
\* entry that throws ends it, the entries before it stay
RECURSIVE SortEach(_, _)
SortEach(q, entries) ==
    IF entries = <<>> THEN Returned(q, "this")
    ELSE LET e == Head(entries).v
             r == SortOne(q, e[1], IF Len(e) > 1 THEN e[2] ELSE Undef)
         IN  IF r.ret # "this" THEN r ELSE SortEach(r.q, Tail(entries))

\* Query.sort
QuerySort(q, key, order) ==
    IF key.t = "string" THEN SortOne(q, key, order)
    ELSE IF order = Num(0) THEN Returned(q, "Invalid sorting order: 0")
    ELSE SortEach([q EXCEPT !.data.sort = IF @ = Undef THEN List(<<>>) ELSE @], key.v)

\* Query.fields(...fields), the arguments being strings
RECURSIVE FieldsEach(_, _)
FieldsEach(list, fields) ==
    IF fields = <<>> THEN list
    ELSE FieldsEach(IF \E i \in DOMAIN list : list[i] = Head(fields) THEN list
                    ELSE Append(list, Head(fields)),
                    Tail(fields))
QueryFields(q, fields) ==
    LET list == IF q.data.fields = Undef THEN <<>> ELSE q.data.fields.v
    IN  Returned([q EXCEPT !.data.fields = List(FieldsEach(list, fields))], "this")

\* Query.toJSON: this.data itself
QueryToJSON(q) == q.data

(***************************************************************************)
(* Query.parse.  A path is the sequence of the pieces path.split      *)
(* gives; a piece is a property name or, below a logical operator, the     *)
(* operator with the index of one of its groups ('$and[0]').               *)
(***************************************************************************)
Indexed(name, i) ==
    CASE name = "$and" /\ i = 0 -> "$and[0]"
      [] name = "$and" /\ i = 1 -> "$and[1]"
      [] name = "$or" /\ i = 0 -> "$or[0]"
      [] OTHER -> "$or[1]"
IndexedPieces == {"$and[0]", "$and[1]", "$or[0]", "$or[1]"}
NameOf(piece) == IF piece \in {"$and[0]", "$and[1]"} THEN "$and" ELSE "$or"
IndexIn(piece) == IF piece \in {"$and[0]", "$or[0]"} THEN 0 ELSE 1

\* piece.startsWith('$'), for the pieces of the model
StartsWithDollar(piece) ==
    piece \in COMPARISON_OPERATORS \cup ELEMENT_OPERATORS \cup LOGIC_OPERATORS
              \cup IndexedPieces \cup {"$regex"}

\* typeof x === 'object'
TypeofObject(x) == x.t \in {"object", "array", "null"}

\* the names for-in visits: the properties of an object, the indices of an
\* array, nothing for any other value of the model
ForIn(x) ==
    CASE x.t = "object" -> [i \in DOMAIN x.v |-> x.v[i].k]
      [] x.t = "array" -> [i \in DOMAIN x.v |-> <<ToString(i - 1)>>]
      [] OTHER -> <<>>

\* x[name], name one piece
Member(x, name) ==
    CASE x.t = "object" -> DictGet(x, <<name>>)
      [] x.t = "array" ->
            IF name = "length" THEN Num(Len(x.v))
            ELSE IF \E i \in DOMAIN x.v : ToString(i - 1) = name
                 THEN x.v[(CHOOSE i \in DOMAIN x.v : ToString(i - 1) = name)]
                 ELSE Undef
      [] OTHER -> Undef

\* lodash get along the pieces of a path
RECURSIVE GetPieces(_, _)
GetPieces(x, pieces) ==
    IF pieces = <<>> THEN x
    ELSE LET p == Head(pieces)
             next == IF p \in IndexedPieces
                     THEN Member(Member(x, NameOf(p)), ToString(IndexIn(p)))
                     ELSE Member(x, p)
         IN  GetPieces(next, Tail(pieces))

\* get(data, `$where${altPath}`): the path with its middle taken as one
\* property name that has dots in it
GetAlt(where, parts) ==
    LET final == parts[Len(parts)]
        hasOp == StartsWithDollar(final)
        hasPrefix == StartsWithDollar(parts[1])
        a1 == IF hasOp THEN SubSeq(parts, 1, Len(parts) - 1) ELSE parts
        a2 == IF hasPrefix /\ a1 # <<>> THEN Tail(a1) ELSE a1
        x1 == IF hasPrefix /\ a1 # <<>> THEN GetPieces(where, <<parts[1]>>) ELSE where
        x2 == IF x1.t = "object" THEN DictGet(x1, a2) ELSE Undef
    IN  IF hasPrefix /\ a1 = <<>> THEN Undef
        ELSE IF hasOp THEN Member(x2, final) ELSE x2

\* this[logicOperator.substr(1)](key)[operator.substr(1)](value)
ParseLeaf(q, logicOperator, key, operator, value) ==
    LET r == IF logicOperator = "$and" THEN QueryAnd(q, key) ELSE QueryOr(q, key)
    IN  IF r.ret # "WhereQuery" THEN r
        ELSE LET w == WhereQueryCompare(r.q, operator, value)
             IN  Returned(w.q, IF w.ret \in {"this", "WhereQuery"} THEN "this" ELSE w.ret)

RECURSIVE ParsePath(_, _, _, _, _)
RECURSIVE ParseNames(_, _, _, _, _, _)
RECURSIVE ParseGroups(_, _, _, _, _, _, _)
RECURSIVE ParseGroup(_, _, _, _, _, _, _)

\* Query.parse(data, path, logicOperator, key) with a path; where is
\* data.$where
ParsePath(q, where, path, logicOperator, key) ==
    LET got == GetPieces(where, path)
        value == IF got = Undef THEN GetAlt(where, path) ELSE got
        final == path[Len(path)]
        parts == SubSeq(path, 1, Len(path) - 1)
    IN  IF ~StartsWithDollar(final)
        THEN (IF TypeofObject(value)
              THEN ParseNames(q, where, path, logicOperator, key, ForIn(value))
              ELSE ParseLeaf(q, logicOperator, key, "$eq", value))
        ELSE IF final \in COMPARISON_OPERATORS \cup ELEMENT_OPERATORS
        THEN ParseLeaf(q, logicOperator,
                       IF key = <<>> THEN key ELSE SubSeq(key, 1, Len(key) - 1), final, value)
        ELSE IF final \in LOGIC_OPERATORS
        THEN (IF value.t \in {"undefined", "null"} THEN Returned(q, "TypeError")
              ELSE IF value.t # "array" THEN Returned(q, "this")
              ELSE ParseGroups(q, where, path, parts, final, value.v, 0))
        ELSE Returned(q, "Cannot parse")

\* for (const i in value) this.parse(data, `${path}.${i}`, logicOperator, `${key}.${i}`)
ParseNames(q, where, path, logicOperator, key, names) ==
    IF names = <<>> THEN Returned(q, "this")
    ELSE LET r == ParsePath(q, where, path \o Head(names), logicOperator, key \o Head(names))
         IN  IF r.ret # "this" THEN r
             ELSE ParseNames(r.q, where, path, logicOperator, key, Tail(names))

\* for (let i = 0; i < value.length; i++) for (const j in value[i]) ...
ParseGroups(q, where, path, parts, logicOperator, groups, i) ==
    IF i >= Len(groups) THEN Returned(q, "this")
    ELSE LET r == ParseGroup(q, where, path, parts, logicOperator, i, ForIn(groups[i + 1]))
         IN  IF r.ret # "this" THEN r
             ELSE ParseGroups(r.q, where, path, parts, logicOperator, groups, i + 1)

\* this.parse(data, `${path}[${i}].${j}`, logicOperator, key), key being j
\* or parts.join('.') + `.${j}`
ParseGroup(q, where, path, parts, logicOperator, i, names) ==
    IF names = <<>> THEN Returned(q, "this")
    ELSE LET j == Head(names)
             r == ParsePath(q, where, parts \o <<Indexed(logicOperator, i)>> \o j,
                            logicOperator, parts \o j)
         IN  IF r.ret # "this" THEN r
             ELSE ParseGroup(r.q, where, path, parts, logicOperator, i, Tail(names))

\* Query.parse(data) without a path: d is the filter object, its absent
\* properties undefined
ParseData(q, d) ==
    LET q1 == [q EXCEPT !.data.limit = IF Truthy(d.limit) THEN d.limit ELSE Num(0),
                        !.data.skip = IF Truthy(d.skip) THEN d.skip ELSE Num(0)]
        r2 == IF Truthy(d.sort) THEN QuerySort(q1, d.sort, Undef) ELSE Returned(q1, "this")
        r3 == IF Truthy(d.fields) THEN QueryFields(r2.q, d.fields.v) ELSE r2
    IN  IF r2.ret # "this" THEN r2
        ELSE IF Truthy(d.where)
        THEN ParseNames(r3.q, d.where, <<>>, "$and", <<>>, ForIn(d.where))
        ELSE r3

\* new Query(runHandler, data)
QueryConstructor(d) ==
    IF d = Undef THEN Returned(NewQuery, "this") ELSE ParseData(NewQuery, d)

(***************************************************************************)
(* ArangoDBAdapter.queryToAQL.  The AQL string is the sequence of the      *)
(* pieces of text the code appends to it.                                  *)
(***************************************************************************)
\* lookup[name]; a name the table lacks reads undefined
Lookup(name) ==
    CASE name = "$and" -> "AND"
      [] name = "$or" -> "OR"
      [] name = "$eq" -> "=="
      [] name = "$gt" -> ">"
      [] name = "$gte" -> ">="
      [] name = "$in" -> "IN"
      [] name = "$lt" -> "<"
      [] name = "$lte" -> "<="
      [] name = "$ne" -> "!="
      [] name = "$nin" -> "NOT IN"
      [] OTHER -> "undefined"

\* a property name as text: its pieces with dots between them
RECURSIVE Dotted(_)
Dotted(pieces) ==
    IF pieces = <<>> THEN <<>>
    ELSE IF Len(pieces) = 1 THEN pieces
    ELSE <<Head(pieces), ".">> \o Dotted(Tail(pieces))

\* A plausible slip: only id is remapped.
RemapOnlyId(pieces) ==
    IF pieces = <<"id">> THEN <<"_key">> ELSE pieces

\* logical id and rev are stored as _key and _rev
Remap(pieces) ==
    IF pieces = <<"id">> THEN <<"_key">> ELSE IF pieces = <<"rev">> THEN <<"_rev">> ELSE pieces

\* `${x}` of a value
RECURSIVE Template(_)
RECURSIVE TemplateJoin(_)
TemplateJoin(elems) ==
    IF elems = <<>> THEN <<>>
    ELSE (IF Head(elems).t \in {"undefined", "null"} THEN <<>> ELSE Template(Head(elems)))
         \o (IF Len(elems) > 1 THEN <<",">> ELSE <<>>) \o TemplateJoin(Tail(elems))
Template(x) ==
    CASE x.t = "number" -> <<ToString(x.v)>>
      [] x.t = "boolean" -> <<IF x.v THEN "true" ELSE "false">>
      [] x.t = "string" -> <<x.v>>
      [] x.t = "array" -> TemplateJoin(x.v)
      [] x.t = "object" -> <<"[object Object]">>
      [] OTHER -> <<x.t>>

\* the text for one operator of a predicate
OperatorText(aKey, operator, value) ==
    <<"doc.">> \o Dotted(aKey) \o <<" ">>
        \o (IF operator = "$exists"
            THEN <<IF Truthy(value) THEN " != null" ELSE " == null">>
            ELSE <<Lookup(operator)>>
                 \o (IF value.t = "string" THEN <<" \"", value.v, "\"">>
                     ELSE <<" ">> \o Template(value)))

\* the loops over the keys of a predicate and over the operators of a key
RECURSIVE OperatorsText(_, _)
OperatorsText(aKey, pairs) ==
    IF pairs = <<>> THEN <<>>
    ELSE OperatorText(aKey, Head(pairs).k[1], Head(pairs).x) \o OperatorsText(aKey, Tail(pairs))
RECURSIVE PredicateText(_)
PredicateText(pairs) ==
    IF pairs = <<>> THEN <<>>
    ELSE (IF Head(pairs).x.t = "object" THEN OperatorsText(Remap(Head(pairs).k), Head(pairs).x.v)
          ELSE <<>>)
         \o PredicateText(Tail(pairs))

\* the loop over the predicates of one branch of $where
RECURSIVE BranchText(_, _, _)
BranchText(name, preds, i) ==
    IF i >= Len(preds) THEN <<>>
    ELSE (IF i = 0 THEN <<" FILTER ">> ELSE <<" ", Lookup(name), " ">>)
         \o (IF preds[i + 1].t = "object" THEN PredicateText(preds[i + 1].v) ELSE <<>>)
         \o BranchText(name, preds, i + 1)
RECURSIVE WhereText(_)
WhereText(branches) ==
    IF branches = <<>> THEN <<>>
    ELSE BranchText(Head(branches).k[1], Head(branches).x.v, 0) \o WhereText(Tail(branches))

RECURSIVE SortText(_, _)
SortText(entries, i) ==
    IF i >= Len(entries) THEN <<>>
    ELSE LET e == entries[i + 1].v
         IN  <<IF i = 0 THEN " SORT " ELSE ", ", "doc.">> \o Dotted(Remap(e[1].v))
                 \o (IF e[2].v < 0 THEN <<" DESC">> ELSE <<>>)
                 \o SortText(entries, i + 1)

LimitText(d) ==
    IF d.limit = Num(0) THEN <<>>
    ELSE IF Truthy(d.skip) THEN <<" LIMIT ">> \o Template(d.skip) \o <<", ">> \o Template(d.limit)
    ELSE <<" LIMIT ">> \o Template(d.limit)

\* lodash set(fields, aKey, text) on the object of the projection
RECURSIVE SetField(_, _, _)
SetField(o, path, text) ==
    IF Len(path) = 1 THEN DictPut(o, path, text)
    ELSE LET k == <<Head(path)>>
             old == DictGet(o, k)
         IN  DictPut(o, k, SetField(IF old.t = "object" THEN old ELSE Dict(<<>>), Tail(path), text))
RECURSIVE Projection(_, _)
Projection(o, fields) ==
    IF fields = <<>> THEN o
    ELSE LET aKey == Remap(Head(fields).v)
         IN  Projection(SetField(o, aKey, Str(<<"doc.">> \o Dotted(aKey))), Tail(fields))

\* inspect(fields, null, Infinity) without its quotes
RECURSIVE Inspect(_)
RECURSIVE InspectPairs(_)
InspectPairs(pairs) ==
    IF pairs = <<>> THEN <<>>
    ELSE Head(pairs).k \o <<": ">> \o Inspect(Head(pairs).x)
         \o (IF Len(pairs) > 1 THEN <<", ">> ELSE <<>>) \o InspectPairs(Tail(pairs))
Inspect(x) ==
    IF x.t = "object" THEN (IF x.v = <<>> THEN <<"{}">> ELSE <<"{ ">> \o InspectPairs(x.v) \o <<" }">>)
    ELSE x.v

\* ArangoDBAdapter.queryToAQL(collection, query), query one with data d
queryToAQL(collection, d) ==
    <<"FOR doc IN ", collection>>
        \o WhereText(d.where.v)
        \o (IF Truthy(d.sort) THEN SortText(d.sort.v, 0) ELSE <<>>)
        \o LimitText(d)
        \o (IF Truthy(d.fields) /\ d.fields.v # <<>>
            THEN <<" RETURN ">> \o Inspect(Projection(Dict(<<>>), d.fields.v))
            ELSE <<" RETURN doc">>)

(***************************************************************************)
(* Inputs and state machine of the Query                                   *)
(***************************************************************************)
\* a name as a string value
Name(pieces) == Str(pieces)

QueryKeys == {<<"id">>, <<"a", "b">>}
QueryValues == {Num(1), Str("x")}
\* operators and logical operators a caller names: supported ones, one that
\* is not, and none
OperatorArgs == {Str("$eq"), Str("$exists"), Str("$regex")}
LogicalArgs == {Undef, Str("$or"), Str("$xor")}
Methods == {"$eq", "$gt", "$in", "$exists"}
PagingValues == {Num(-1), Num(0), Num(2)}
SortOrders == {Undef, Num(-2), Num(0), Num(3)}
SortArrays == {List(<<>>),
               List(<<List(<<Name(<<"id">>), Num(1)>>), List(<<Name(<<"a", "b">>), Num(-1)>>)>>),
               List(<<List(<<Name(<<"id">>)>>), List(<<Name(<<"a", "b">>), Num(0)>>)>>),
               List(<<List(<<Name(<<"rev">>), Num(-1)>>), List(<<Name(<<"a", "b">>)>>)>>)}
FieldLists == {<<>>, <<Name(<<"id">>), Name(<<"a", "b">>)>>, <<Name(<<"a">>), Name(<<"id">>)>>,
               <<Name(<<"rev">>), Name(<<"a", "b">>)>>}
Collections == {"collection"}

\* filter objects: their absent properties are undefined
Filter(where) ==
    [limit |-> Undef, skip |-> Undef, sort |-> Undef, fields |-> Undef, where |-> where]
Eq(v) == Dict(<<Pair(<<"$eq">>, v)>>)
\* {f: v}, {f: {$eq: v}} and {$and: [{f: {$eq: v}}]}, f written as one key
ShortForm(f, v) == Dict(<<Pair(f, v)>>)
OperatorForm(f, v) == Dict(<<Pair(f, Eq(v))>>)
CanonicalForm(f, v) == Dict(<<Pair(<<"$and">>, List(<<Predicate(f, "$eq", v)>>))>>)
\* the same with f = a.b written as nested objects
NestedShortForm(v) == Dict(<<Pair(<<"a">>, ShortForm(<<"b">>, v))>>)
NestedOperatorForm(v) == Dict(<<Pair(<<"a">>, OperatorForm(<<"b">>, v))>>)
NestedCanonicalForm(v) ==
    Dict(<<Pair(<<"$and">>, List(<<Dict(<<Pair(<<"a">>, OperatorForm(<<"b">>, v))>>)>>))>>)

\* {$where: ...} for one field and one scalar, in all its forms
EquivalentWheres(f, v) ==
    {ShortForm(f, v), OperatorForm(f, v), CanonicalForm(f, v)}
        \cup (IF f = <<"a", "b">>
              THEN {NestedShortForm(v), NestedOperatorForm(v), NestedCanonicalForm(v)}
              ELSE {})
\* the fields and scalars the forms are written for
EquivalentCases == {[f |-> <<"id">>, v |-> Str("x")], [f |-> <<"a", "b">>, v |-> Num(1)]}
\* each form alone, with $limit and $skip of 0, and with a $sort and $fields
FiltersFor(c) ==
    UNION {{Filter(w),
            [Filter(w) EXCEPT !.limit = Num(0), !.skip = Num(0)],
            [Filter(w) EXCEPT !.sort = List(<<List(<<Name(<<"id">>), Num(1)>>)>>),
                              !.fields = List(<<Name(<<"id">>)>>)]} :
           w \in EquivalentWheres(c.f, c.v)}
EquivalentFilters == UNION {FiltersFor(c) : c \in EquivalentCases}

\* other filters: none, paging below zero, an $or branch, an operator the
\* parser does not know, a sort order of 0
OtherFilters ==
    {Undef,
     [Filter(Undef) EXCEPT !.limit = Num(-1), !.skip = Num(-1)],
     Filter(Dict(<<Pair(<<"$and">>, List(<<Predicate(<<"id">>, "$eq", Num(1))>>)),
                   Pair(<<"$or">>, List(<<Predicate(<<"a", "b">>, "$gt", Num(1))>>))>>)),
     Filter(Dict(<<Pair(<<"id">>, Dict(<<Pair(<<"$regex">>, Str("x"))>>))>>)),
     [Filter(Undef) EXCEPT !.sort = List(<<List(<<Name(<<"id">>), Num(0)>>)>>)]}
Filters == EquivalentFilters \cup OtherFilters

NoCall == [op |-> "new", key |-> <<>>, operator |-> Undef, value |-> Undef,
           logical |-> Undef, order |-> Undef, fields |-> <<>>, filter |-> Undef,
           collection |-> "", ret |-> "this", out |-> <<>>, copy |-> NewQuery, pre |-> NewQuery]

\* calls of add made before the calls under study
AddCall(key, operator, value) == [key |-> key, operator |-> Str(operator), value |-> value]
QueryHistories ==
    {<<>>,
     <<AddCall(<<"id">>, "$eq", Str("x"))>>,
     <<AddCall(<<"id">>, "$eq", Str("x")), AddCall(<<"a", "b">>, "$gt", Num(1))>>,
     <<AddCall(<<"rev">>, "$ne", Str("x")), AddCall(<<"id">>, "$eq", Str("x"))>>}
RECURSIVE ReplayAdds(_, _)
ReplayAdds(q, h) ==
    IF h = <<>> THEN q
    ELSE ReplayAdds(QueryAdd(q, Head(h).key, Head(h).operator, Head(h).value, Undef).q, Tail(h))

\* new Query(), and the calls of add a history holds
QueryInit ==
    /\ \E h \in QueryHistories : query = ReplayAdds(NewQuery, h)
    /\ ops = 0
    /\ last = NoCall
    /\ data = Undef
    /\ changes = <<>>
    /\ virtuals = EmptyMap
    /\ number = Undef
    /\ saved = Undef
    /\ base = NoBase
    /\ handlers = NoHandlers
    /\ twin = NoTwin
    /\ mapper = NoMapper
    /\ container = NoContainer

\* a call on the Query that returned r
QueryCall(call, r) ==
    /\ ops < MaxBuild
    /\ ops' = ops + 1
    /\ query' = r.q
    /\ last' = [call EXCEPT !.ret = r.ret, !.pre = query]
    /\ UNCHANGED <<data, changes, virtuals, number, saved, base, handlers, twin, mapper,
                   container>>

Add ==
    \E key \in QueryKeys, operator \in OperatorArgs, value \in QueryValues,
       logical \in LogicalArgs :
        /\ operator # Str("$eq") => value = Num(1)
        /\ QueryCall([NoCall EXCEPT !.op = "add", !.key = key, !.operator = operator,
                                    !.value = value, !.logical = logical],
                     QueryAdd(query, key, operator, value, logical))

\* where(key) and where(key, operator, value, logicalOperator)
Where ==
    \E key \in QueryKeys, operator \in OperatorArgs \cup {Undef}, logical \in LogicalArgs :
        LET value == IF operator = Undef THEN Undef ELSE Num(1)
        IN  /\ operator # Str("$eq") => logical = Undef
            /\ QueryCall([NoCall EXCEPT !.op = "where", !.key = key, !.operator = operator,
                                        !.value = value, !.logical = logical],
                         QueryWhere(query, key, operator, value, logical))

And ==
    \E key \in QueryKeys :
        QueryCall([NoCall EXCEPT !.op = "and", !.key = key], QueryAnd(query, key))

Or ==
    \E key \in QueryKeys :
        QueryCall([NoCall EXCEPT !.op = "or", !.key = key], QueryOr(query, key))

\* a comparison method of the WhereQuery the caller got last
Compare ==
    /\ query.ctx.exists
    /\ \E operator \in Methods, value \in QueryValues :
          QueryCall([NoCall EXCEPT !.op = "compare", !.key = query.ctx.key,
                                   !.operator = Str(operator), !.value = value,
                                   !.logical = query.ctx.logicalOperator],
                    WhereQueryCompare(query, operator, value))

Limit ==
    \E value \in PagingValues :
        QueryCall([NoCall EXCEPT !.op = "limit", !.value = value], QueryLimit(query, value))

Skip ==
    \E value \in PagingValues :
        QueryCall([NoCall EXCEPT !.op = "skip", !.value = value], QuerySkip(query, value))

\* sort(key, order), sort(key) and sort([[key, order], ...])
Sort ==
    \/ \E key \in QueryKeys, order \in SortOrders :
          QueryCall([NoCall EXCEPT !.op = "sort", !.value = Name(key), !.order = order],
                    QuerySort(query, Name(key), order))
    \/ \E entries \in SortArrays :
          QueryCall([NoCall EXCEPT !.op = "sort", !.value = entries],
                    QuerySort(query, entries, Undef))

Fields ==
    \E fields \in FieldLists :
        QueryCall([NoCall EXCEPT !.op = "fields", !.fields = fields], QueryFields(query, fields))

\* A plausible slip: the translation rewrites the paging of the Query it
\* reads.
TranslateResetsLimit ==
    \E collection \in Collections :
        QueryCall([NoCall EXCEPT !.op = "queryToAQL", !.collection = collection,
                                 !.out = queryToAQL(collection, query.data)],
                  Returned([query EXCEPT !.data.limit = Num(0)], "string"))

\* adapter.queryToAQL(collection, query)
Translate ==
    \E collection \in Collections :
        QueryCall([NoCall EXCEPT !.op = "queryToAQL", !.collection = collection,
                                 !.out = queryToAQL(collection, query.data)],
                  Returned(query, "string"))

\* query.run() of a Query of Mapper.find: the handler is Mapper.findAll,
\* whose adapter.findAll translates the Query twice and sends the second
\* string
Run ==
    \E collection \in Collections :
        QueryCall([NoCall EXCEPT !.op = "run", !.collection = collection,
                                 !.out = queryToAQL(collection, query.data)],
                  Returned(query, "promise"))

\* new Query(null, filter): the caller goes on with the new Query, or with
\* the old one when the constructor threw
Construct ==
    \E filter \in Filters :
        LET r == QueryConstructor(filter)
        IN  QueryCall([NoCall EXCEPT !.op = "new Query", !.filter = filter],
                      IF r.ret = "this"
                      THEN Returned([r.q EXCEPT !.ctx = NoWhereQuery], "this")
                      ELSE Returned(query, r.ret))

\* new Query(null, query.toJSON()): copy is the Query it makes
Reparse ==
    LET r == QueryConstructor(QueryToJSON(query))
    IN  QueryCall([NoCall EXCEPT !.op = "reparse", !.copy = r.q], Returned(query, r.ret))

QueryNext ==
    \/ Add \/ Where \/ And \/ Or \/ Compare \/ Limit \/ Skip \/ Sort \/ Fields
    \/ Translate \/ Run \/ Construct \/ Reparse

QuerySpec == QueryInit /\ [][QueryNext]_vars

(***************************************************************************)
(* Properties of the Query                                                 *)
(***************************************************************************)
QData == query.data
PreData == last.pre.data
ThrewInvalid == last.ret \in {"Invalid operator", "Invalid logical operator"}
Supported(operator) ==
    operator.t = "string" /\ operator.v \in COMPARISON_OPERATORS \cup ELEMENT_OPERATORS
SupportedLogical(logical) ==
    ~Truthy(logical) \/ logical.v \in LOGIC_OPERATORS
PrecedingWhereRequired == "Cannot use or() without using where() first"

\* C22: where(f).<op>(v), for op in eq, ne, gt, gte, lt, lte, in, nin,
\* exists, appends exactly one predicate {f: {$op: v}} at the end of the and
\* branch, changes nothing else in the data and returns the Query itself; a
\* call that names an unsupported operator or an unsupported logical
\* operator throws and appends nothing.
C22_WhereAppends ==
    /\ (last.op = "compare" /\ last.logical # Str("$or")) =>
          /\ last.ret = "this"
          /\ QData = Push(PreData, "$and",
                          Predicate(last.key, last.operator.v, last.value))
    /\ (/\ last.op \in {"where", "add"}
        /\ last.operator # Undef
        /\ ~Supported(last.operator) \/ ~SupportedLogical(last.logical)) =>
          /\ ThrewInvalid
          /\ QData = PreData

\* C23: or(f) throws the error that asks for a preceding where, and leaves
\* the data as it was, whenever the and branch holds no predicate: when
\* nothing was ever added to it and when or() has moved all its predicates
\* out.
C23_OrRequiresPredicate ==
    (last.op = "or" /\ Branch(PreData, "$and") = <<>>) =>
        /\ last.ret = PrecedingWhereRequired
        /\ QData = PreData

\* C24: when the and branch is not empty, or(f) takes the predicate added
\* to it last and appends it to the or branch, the other and predicates
\* keeping their order; the comparison call that follows appends the
\* predicate for f to the or branch, after the moved one, so that the number
\* of predicates grows by exactly one.
C24_OrMovesLast ==
    /\ (last.op = "or" /\ Branch(PreData, "$and") # <<>>) =>
          LET and == Branch(PreData, "$and")
          IN  /\ last.ret = "WhereQuery"
              /\ Branch(QData, "$and") = SubSeq(and, 1, Len(and) - 1)
              /\ Branch(QData, "$or") = Append(Branch(PreData, "$or"), and[Len(and)])
    /\ (last.op = "compare" /\ last.logical = Str("$or")) =>
          /\ Branch(QData, "$and") = Branch(PreData, "$and")
          /\ Branch(QData, "$or") =
                Append(Branch(PreData, "$or"),
                       Predicate(last.key, last.operator.v, last.value))

\* one field mapped to one operator and its value
WellFormed(p) ==
    /\ p.t = "object"
    /\ Len(p.v) = 1
    /\ p.v[1].x.t = "object"
    /\ Len(p.v[1].x.v) = 1
    /\ p.v[1].x.v[1].k[1] \in COMPARISON_OPERATORS \cup ELEMENT_OPERATORS

\* C25: after any sequence of builder and parser operations every element
\* of the and and or branches is a well-formed predicate group, every
\* predicate made is in exactly one of the two branches, and the or branch
\* holds something only if a predicate was first added to the and branch.
C25_BranchesWellFormed ==
    LET and == Branch(QData, "$and")
        or == Branch(QData, "$or")
    IN  /\ \A i \in DOMAIN and : WellFormed(and[i])
        /\ \A i \in DOMAIN or : WellFormed(or[i])
        /\ Len(and) + Len(or) = query.made
        /\ or # <<>> => DictHas(QData.where, <<"$and">>)

\* the direction the claim gives for a direction d that is not 0
Direction(d) == IF d = Undef \/ d.v > 0 THEN Num(1) ELSE Num(-1)
SortList(d) == IF d.sort = Undef THEN <<>> ELSE d.sort.v
EntryOrder(e) == IF Len(e.v) > 1 THEN e.v[2] ELSE Undef

\* C26: sort(f, d) appends (f, 1) when d > 0 or d is omitted and (f, -1)
\* when d < 0, after the entries $sort holds; sort([[f1, d1], ...]) appends
\* its entries in the order of the array, their directions made 1 or -1 the
\* same way; a direction of exactly 0 throws the invalid-sort-order error.
C26_SortAppends ==
    last.op = "sort" =>
        IF last.value.t = "string"
        THEN IF last.order = Num(0)
             THEN last.ret = "Invalid sorting order: 0"
             ELSE /\ last.ret = "this"
                  /\ SortList(QData) =
                        Append(SortList(PreData), List(<<last.value, Direction(last.order)>>))
        ELSE LET entries == last.value.v
             IN  IF \E i \in DOMAIN entries : EntryOrder(entries[i]) = Num(0)
                 THEN last.ret = "Invalid sorting order: 0"
                 ELSE /\ last.ret = "this"
                      /\ SortList(QData) =
                            SortList(PreData)
                                \o [i \in DOMAIN entries |->
                                       List(<<entries[i].v[1], Direction(EntryOrder(entries[i]))>>)]

\* sort with an array of two entries, one without a direction and one with
\* a negative one, on a Query that has a sort entry
C26_Witness ==
    /\ last.op = "sort"
    /\ last.ret = "this"
    /\ last.value.t = "array"
    /\ Len(SortList(PreData)) = 1
    /\ Len(SortList(QData)) = 3
    /\ SortList(QData)[2].v[2] = Num(1)
    /\ SortList(QData)[3].v[2] = Num(-1)

\* C27: in every state of a Query, after any calls of limit(n) and skip(n)
\* and after parsing any filter object, $limit and $skip are integers >= 0.
C27_PagingNotNegative ==
    /\ QData.limit.t = "number" /\ QData.limit.v >= 0
    /\ QData.skip.t = "number" /\ QData.skip.v >= 0

\* deep equality of the data of two queries: the order of the properties
\* of $where does not count
SameData(d, e) ==
    /\ d.limit = e.limit /\ d.skip = e.skip /\ d.sort = e.sort /\ d.fields = e.fields
    /\ \A name \in LOGIC_OPERATORS :
          /\ DictHas(d.where, <<name>>) <=> DictHas(e.where, <<name>>)
          /\ Branch(d, name) = Branch(e, name)

\* where(f).eq(v) on a new Query
WhereEq(f, v) == WhereQueryCompare(QueryWhere(NewQuery, f, Undef, Undef, Undef).q, "$eq", v).q

\* C28: the equivalent declarative forms parse to one canonical model and
\* one translated query: {$where: {f: v}}, {$where: {f: {$eq: v}}} and
\* {$where: {$and: [{f: {$eq: v}}]}}, f written as a dotted key or as nested
\* objects, all give data equal to {$limit: 0, $skip: 0,
\* $where: {$and: [{f: {$eq: v}}]}} plus the given $sort and $fields, which is
\* also what where(f).eq(v) gives.
C28_EquivalentForms ==
    \A c \in EquivalentCases :
        (last.op = "new Query" /\ last.filter \in FiltersFor(c)) =>
            LET canonical == [limit |-> Num(0), skip |-> Num(0),
                              where |-> CanonicalForm(c.f, c.v),
                              sort |-> last.filter.sort, fields |-> last.filter.fields]
                built == [WhereEq(c.f, c.v).data EXCEPT !.sort = last.filter.sort,
                                                        !.fields = last.filter.fields]
            IN  /\ last.ret = "this"
                /\ SameData(QData, canonical)
                /\ SameData(QData, built)
                /\ \A n \in Collections : queryToAQL(n, QData) = queryToAQL(n, canonical)

\* C29: for a Query q built by builder calls, new Query(null, q.toJSON())
\* succeeds and its data equals q's data (the same predicates in the same
\* branches and order, the same sort, limit, skip and fields), also when q
\* has an or branch, and the two translate to the same string.
C29_RoundTrip ==
    last.op = "reparse" =>
        /\ last.ret = "this"
        /\ SameData(last.copy.data, QData)
        /\ \A n \in Collections : queryToAQL(n, last.copy.data) = queryToAQL(n, QData)

RECURSIVE PathFrom(_, _)
PathFrom(out, i) ==
    IF i > Len(out) THEN <<>>
    ELSE <<out[i]>> \o (IF i + 1 <= Len(out) /\ out[i + 1] = "." THEN PathFrom(out, i + 2) ELSE <<>>)

\* the first place from i on where one of the marks stands, or the end
FirstOf(out, marks, i) ==
    LET places == {j \in i..Len(out) : out[j] \in marks}
    IN  IF places = {} THEN Len(out) + 1 ELSE CHOOSE j \in places : \A k \in places : j <= k

\* the field paths the text refers to between two places
References(out, from, to) ==
    {PathFrom(out, j + 1) : j \in {k \in from..(to - 1) : k <= Len(out) /\ out[k] = "doc."}}

SortAt(out) == FirstOf(out, {" SORT "}, 1)
LimitAt(out) == FirstOf(out, {" LIMIT "}, 1)
ReturnAt(out) == FirstOf(out, {" RETURN ", " RETURN doc"}, 1)
Least(a, b) == IF a <= b THEN a ELSE b
FilterReferences(out) == References(out, 1, Least(SortAt(out), Least(LimitAt(out), ReturnAt(out))))
SortReferences(out) == References(out, SortAt(out), Least(LimitAt(out), ReturnAt(out)))
ProjectionReferences(out) == References(out, ReturnAt(out), Len(out) + 1)

\* the logical field paths of the data: keys of the predicates of both
\* branches, names of the sort entries, projected fields
PredicateKeys(preds) ==
    UNION {{preds[i].v[j].k : j \in 1..Len(preds[i].v)} :
           i \in {n \in 1..Len(preds) : preds[n].t = "object"}}
WhereKeys(d) == PredicateKeys(Branch(d, "$and")) \cup PredicateKeys(Branch(d, "$or"))
SortKeys(d) == IF Truthy(d.sort) THEN {d.sort.v[i].v[1].v : i \in 1..Len(d.sort.v)} ELSE {}
FieldKeys(d) == IF Truthy(d.fields) THEN {d.fields.v[i].v : i \in 1..Len(d.fields.v)} ELSE {}

\* the storage path of a logical path
Stored(path) ==
    CASE path = <<"id">> -> <<"_key">>
      [] path = <<"rev">> -> <<"_rev">>
      [] OTHER -> path

C32_SkipPages ==
    (last.op = "queryToAQL" /\ QData.skip.t = "number" /\ QData.skip.v > 0) =>
        /\ LimitAt(last.out) < Len(last.out)
        /\ last.out[LimitAt(last.out) + 1] = ToString(QData.skip.v)

(***************************************************************************)
(* Revision mismatch                                                       *)
(***************************************************************************)
\* the revision an update or a replace in progress was given
Supplied ==
    IF mapper.writing = "adapter.replace" THEN mapper.rev ELSE Prop(mapper.payload, "rev")

\* an update or a replace was answered, the document exists, and the
\* revision that came with the call is not the one stored
RevisionMismatch ==
    /\ mapper.writing \in {"adapter.update", "adapter.replace"}
    /\ mapper.todo = <<>>
    /\ mapper.trace # <<>>
    /\ mapper.trace[Len(mapper.trace)] = mapper.writing
    /\ IsId(mapper.reqId)
    /\ mapper.before[mapper.reqId.v].exists
    /\ Truthy(Supplied)
    /\ Supplied # RevOf(mapper.before[mapper.reqId.v].n)

\* C33: an update or a replace whose revision is not the stored one rejects
\* with an AssertionError on path rev that carries the revision supplied as
\* expected and the stored one as actual; the collection and the record are
\* as they were.
C33_RevisionMismatch ==
    RevisionMismatch =>
        /\ mapper.result = "rejected"
        /\ mapper.error = "AssertionError"
        /\ mapper.detail = [path |-> "rev", expected |-> Supplied,
                            actual |-> RevOf(mapper.before[mapper.reqId.v].n)]
        /\ mapper.store = mapper.before
        /\ Cur = Pre

(***************************************************************************)
(* Adapter calls that fail                                                 *)
(***************************************************************************)
AdapterCalls == {"adapter.get"} \cup Writes
AfterHooks == {"afterGet", "afterInsert", "afterUpdate"}
\* the errors the adapter rejects with
AdapterErrors == {"NotFoundError", "AlreadyExistsError", "AssertionError", "ArangoError"}

\* the operation rejected with an error of the adapter
AdapterFailed == mapper.result = "rejected" /\ mapper.error \in AdapterErrors
\* the adapter call that failed
FailedCall == mapper.trace[Len(mapper.trace)]

\* C36 as claimed: an operation whose adapter call failed has fired no
\* after-hook at all, afterGet included, and has not committed the record.
C36_NoAfterHookAtAll ==
    AdapterFailed =>
        /\ \A h \in AfterHooks : ~InTrace(h)
        /\ mapper.op # "updateData" => Cur = Pre

\* C36: nothing is emitted after an adapter call that failed, and the record
\* is not committed: a get of a missing id fires beforeGet and rejects with
\* NotFoundError without afterGet; a failed insert, update or replace fires
\* neither afterInsert nor afterUpdate, and no afterGet other than the one
\* of a get that succeeded before it (update with plain data, save of an
\* unchanged record).
C36_NoAfterHookLater ==
    AdapterFailed =>
        /\ mapper.trace # <<>> /\ FailedCall \in AdapterCalls
        /\ mapper.todo = <<>>
        /\ ~InTrace("afterInsert") /\ ~InTrace("afterUpdate")
        /\ \A i \in DOMAIN mapper.trace :
              mapper.trace[i] = "afterGet" =>
                  /\ i > 1 /\ mapper.trace[i - 1] = "adapter.get"
                  /\ FailedCall \in Writes
                  /\ mapper.op \in {"updateData", "save"}
        /\ FailedCall = "adapter.get" =>
              /\ mapper.error = "NotFoundError"
              /\ InTrace("beforeGet")
              /\ ~InTrace("afterGet")
        /\ mapper.op # "updateData" => Cur = Pre

\* an update with plain data was rejected by the adapter after its get had
\* fired afterGet
C36_Witness ==
    /\ AdapterFailed
    /\ mapper.op = "updateData"
    /\ FailedCall = "adapter.update"
    /\ InTrace("afterGet")

(***************************************************************************)
(* Container.load and the database the ArangoDBAdapter has selected.       *)
(* container.calls holds what became of each call of load(),               *)
(* container.flight the adapter's calls that switched the database and     *)
(* were not answered yet, container.ran the database each other request    *)
(* of the adapter was sent to.                                             *)
(***************************************************************************)
MaxAdapterCalls == 3

SYSTEM == "_system"
\* options.name, and a database a caller names
ConfiguredName == "db"
DatabaseArgs == {Null, Str("test_database")}
Mappers == {"accounts", "people"}
SwitchingMethods == {"createDatabase", "ensureDatabaseExists", "dropDatabase", "getCollectionNames"}

\* new Container(options), with its adapter
NewContainer ==
    [isLoaded |-> FALSE, isLoading |-> FALSE, calls |-> <<>>, loads |-> 0, phase |-> "none",
     mappers |-> [m \in Mappers |-> "none"], opened |-> 0,
     name |-> ConfiguredName, flight |-> <<>>, ran |-> {}]

\* database = this.name, the default of an argument left out
DatabaseOr(c, database) == IF database = Null THEN c.name ELSE database.v

\* a switching call up to its request: the name it saves, the name it
\* selects for the request
Request(c, method, database, forLoad) ==
    [method |-> method, saved |-> c.name, database |-> DatabaseOr(c, database),
     against |-> IF method = "getCollectionNames" THEN DatabaseOr(c, database) ELSE SYSTEM,
     forLoad |-> forLoad]

\* createDatabase, ensureDatabaseExists, dropDatabase, getCollectionNames up
\* to the request; dropDatabase throws for a name that starts with _
Switch(c, method, database, forLoad) ==
    IF method = "dropDatabase" /\ DatabaseOr(c, database) = SYSTEM
    THEN c
    ELSE LET r == Request(c, method, database, forLoad)
         IN  [c EXCEPT !.name = r.against, !.flight = Append(@, r)]

Without(flight, i) == SubSeq(flight, 1, i - 1) \o SubSeq(flight, i + 1, Len(flight))

\* the answer to request i: this.name = currentDatabaseName in the then and
\* in the catch
Answered(c, i) ==
    LET r == c.flight[i]
    IN  [c EXCEPT !.name = r.saved, !.flight = Without(@, i)]

\* another request of the adapter: it goes to the database selected now
Sent(c, method) ==
    [c EXCEPT !.ran = @ \cup {[method |-> method, against |-> c.name,
                               meanwhile |-> c.flight # <<>>]}]

\* what became of the calls of load() that were not settled
Settle(calls, which, result) ==
    [i \in 1..Len(calls) |-> IF calls[i] \in which THEN result ELSE calls[i]]

\* Container.load()
ContainerLoadCall(c) ==
    IF c.isLoaded THEN [c EXCEPT !.calls = Append(@, "resolved")]
    ELSE IF c.isLoading THEN [c EXCEPT !.calls = Append(@, "waiting")]
    ELSE [Switch(c, "ensureDatabaseExists", Null, TRUE) EXCEPT
              !.isLoading = TRUE, !.calls = Append(@, "running"), !.loads = @ + 1,
              !.phase = "adapter"]

\* mapper.load() of every mapper, in the then of adapter.load():
\* createCollection rejects at once when _system is selected
RECURSIVE LoadMappers(_, _)
LoadMappers(c, todo) ==
    IF todo = {} THEN c
    ELSE LET m == CHOOSE x \in todo : TRUE
             next == IF c.name = SYSTEM THEN [c EXCEPT !.mappers[m] = "rejected"]
                     ELSE [Sent(c, "createCollection") EXCEPT !.mappers[m] = "pending"]
         IN  LoadMappers(next, todo \ {m})

\* Promise.all(results), once a mapper.load() has settled
AllSettled(c) ==
    IF \E m \in Mappers : c.mappers[m] = "rejected"
    THEN (IF c.phase = "mappers"
          THEN [c EXCEPT !.phase = "failed", !.calls = Settle(@, {"running"}, "rejected")]
          ELSE c)
    ELSE IF \A m \in Mappers : c.mappers[m] = "resolved"
    THEN [c EXCEPT !.phase = "done", !.opened = @ + 1, !.isLoaded = TRUE, !.isLoading = FALSE,
                   !.calls = Settle(@, {"running", "waiting"}, "resolved")]
    ELSE c

\* the then of adapter.load() in Container.load, or its rejection
AdapterLoaded(c, result) ==
    IF result = "rejected"
    THEN [c EXCEPT !.phase = "failed", !.calls = Settle(@, {"running"}, "rejected")]
    ELSE AllSettled(LoadMappers([c EXCEPT !.phase = "mappers"], Mappers))

ContainerInit ==
    /\ container = NewContainer
    /\ ops = 0
    /\ last = [op |-> "new Container"]
    /\ data = Undef
    /\ changes = <<>>
    /\ virtuals = EmptyMap
    /\ number = Undef
    /\ saved = Undef
    /\ base = NoBase
    /\ handlers = NoHandlers
    /\ twin = NoTwin
    /\ mapper = NoMapper
    /\ query = NoQuery

ContainerStep(c) ==
    /\ container' = c
    /\ UNCHANGED <<data, changes, virtuals, number, saved, base, last, handlers, twin, mapper,
                   query>>

\* a call from outside
ContainerCall(c) ==
    /\ ops < MaxAdapterCalls
    /\ ops' = ops + 1
    /\ ContainerStep(c)

Load == ContainerCall(ContainerLoadCall(container))

\* a caller of the adapter calls one of the switching methods
SwitchDatabase ==
    \E method \in SwitchingMethods, database \in DatabaseArgs :
        ContainerCall(Switch(container, method, database, FALSE))

\* a caller of the adapter calls get
AdapterGetCall == ContainerCall(Sent(container, "get"))

\* the database answers a switching call
Answer ==
    \E i \in 1..Len(container.flight), result \in {"resolved", "rejected"} :
        /\ UNCHANGED ops
        /\ LET c == Answered(container, i)
           IN  ContainerStep(IF container.flight[i].forLoad THEN AdapterLoaded(c, result) ELSE c)

\* the database answers the createCollection of a mapper
MapperLoaded ==
    \E m \in Mappers, result \in {"resolved", "rejected"} :
        /\ container.mappers[m] = "pending"
        /\ UNCHANGED ops
        /\ ContainerStep(AllSettled([container EXCEPT !.mappers[m] = result]))

ContainerNext == Load \/ SwitchDatabase \/ AdapterGetCall \/ Answer \/ MapperLoaded

ContainerSpec == ContainerInit /\ [][ContainerNext]_vars

\* every request is answered in the end
ContainerLiveSpec == ContainerSpec /\ WF_vars(Answer) /\ WF_vars(MapperLoaded)

LoadInProgress == container.phase \in {"adapter", "mappers"}

\* C34: before the first load() both flags are false; isLoading is true only
\* while a load is in progress; once a load() has resolved isLoaded is true
\* and isLoading false; the two are never both true; adapter.load() is
\* called at most once.
C34_LoadState ==
    /\ container.calls = <<>> => ~container.isLoaded /\ ~container.isLoading
    /\ container.isLoading => LoadInProgress
    /\ (\E i \in 1..Len(container.calls) : container.calls[i] = "resolved") =>
          container.isLoaded /\ ~container.isLoading
    /\ ~(container.isLoaded /\ container.isLoading)
    /\ container.loads <= 1

\* once the switching calls have settled the database selected is the one
\* selected before them
NameRestored == container.flight = <<>> => container.name = ConfiguredName
\* no other request was sent to a database selected for the time of a
\* switching call
NoneMisdirected == \A r \in container.ran : r.against = ConfiguredName

\* C35: when no switching call is in flight the adapter has the database
\* selected that was selected before them, also after calls that overlapped,
\* and no other request was sent to a database selected for the time of
\* such a call.
C35_DatabaseRestored == NameRestored /\ NoneMisdirected

Waiting(i) == Len(container.calls) >= i /\ container.calls[i] \in {"running", "waiting"}
Settled(i) == Len(container.calls) >= i /\ container.calls[i] \in {"resolved", "rejected"}

\* C37: every call of load() settles in the end, and after a load that
\* failed isLoading becomes false again, so that the next load() starts one.
C37_LoadSettles ==
    /\ \A i \in 1..MaxAdapterCalls : Waiting(i) ~> Settled(i)
    /\ (container.phase = "failed") ~> ~container.isLoading

(***************************************************************************)
(* record.save() of a Record of the Mapper, whose _save is                 *)
(* (record) => mapper.save(record), and a caller that goes on changing     *)
(* the Record before the save has settled.                                 *)
(***************************************************************************)
\* what the caller sets meanwhile; no other value of the model equals it
MeanwhileValue == Num(2)

\* Record.save: await this._save(this), then this.commit(result); the
\* result of Mapper.save is the Record itself
RecordSaveSteps(s) == SaveSteps(s, TRUE, FALSE) \o <<"commit">>

RecordSaveCall ==
    /\ handlers.save
    /\ Start("record.save", TRUE, FALSE, Undef, RecordGet(Cur, <<"id">>),
             RecordSaveSteps(Cur), Cur)

\* this.commit(result) in Record.save
CommitResult ==
    /\ Running
    /\ Step = "commit"
    /\ StepWith(Continue(mapper, Rest), NoRet(RecordCommit(Cur, ArgRecord(Cur))))

\* record.set('a', value) or record.unset('a') while the save is pending
CallerSetsMeanwhile ==
    /\ Running
    /\ mapper.op = "record.save"
    /\ ~mapper.meanwhile.made
    /\ \E op \in {"set", "unset"} :
          LET r == IF op = "set" THEN RecordSet(Cur, <<"a">>, MeanwhileValue)
                   ELSE RecordUnset(Cur, <<"a">>)
          IN  /\ data' = r.data
              /\ changes' = r.changes
              /\ mapper' = [mapper EXCEPT !.meanwhile =
                               [made |-> TRUE, op |-> op,
                                value |-> IF op = "set" THEN MeanwhileValue ELSE Undef]]
    /\ UNCHANGED <<virtuals, number, saved, base, last, ops, handlers, twin, query, container>>

PendingNext ==
    \/ RecordSaveCall \/ CallerSets \/ CallerSetsMeanwhile
    \/ Emit \/ ValidateRecord \/ AdapterGet \/ CompareRev \/ AdapterWrite \/ Response
    \/ CommitResult

PendingSpec == MapperInit /\ [][PendingNext]_vars

\* the change made meanwhile is in the log
StillLogged ==
    \E i \in DOMAIN changes :
        /\ changes[i].key = <<"a">>
        /\ IF mapper.meanwhile.op = "set"
           THEN changes[i].operation \in {"add", "replace"} /\ changes[i].new = mapper.meanwhile.value
           ELSE changes[i].operation = "remove"

\* the save wrote a document that has the change made meanwhile
Persisted ==
    \E id \in Ids :
        /\ mapper.store[id].exists
        /\ mapper.store[id] # mapper.before[id]
        /\ mapper.store[id].a = mapper.meanwhile.value

\* C38: a set() or unset() made while save() was pending is, once the save
\* has resolved, still in the change log or in the document the save wrote.
C38_MutationKept ==
    (mapper.op = "record.save" /\ HasResolved /\ mapper.meanwhile.made) =>
        StillLogged \/ Persisted

(***************************************************************************)
(* serialize() and toJSON() of a Record with a virtual declared under a    *)
(* dotted key ('a.v').  result is a shallow copy of _data: the objects     *)
(* under its keys are the objects of _data until the key is written.       *)
(***************************************************************************)
MaxSerialize == 2

\* {hello() {...}, 'a.v': {get() {...}, serialize}}
DottedVirtuals(serialize) ==
    [n \in {"hello", "a.v"} |->
        IF n = "hello"
        THEN [isFunction |-> TRUE, hasSet |-> FALSE, hasSave |-> FALSE, save |-> FALSE,
              hasSerialize |-> FALSE, serialize |-> FALSE]
        ELSE [isFunction |-> FALSE, hasSet |-> FALSE, hasSave |-> FALSE, save |-> FALSE,
              hasSerialize |-> TRUE, serialize |-> serialize]]
\* the entries of the Map in the order they were set
DottedNames == <<"hello", "a.v">>
\* lodash stringToPath
PathOf(n) == IF n = "a.v" THEN <<"a", "v">> ELSE <<n>>
DottedGet(n, s) == IF n = "a.v" THEN Str("virtual") ELSE VirtualGet(n, s)

ObjV(x) == Obj([k \in {"v"} |-> x])
\* the data of the Records: a an object without v, an object with v, a
\* number, absent
DottedData == {DataA(ObjX(Num(1))), DataA(ObjV(Num(1))), DataA(Num(1)), Obj(EmptyMap)}

\* the top-level keys under which result holds an object of _data
SharedKeys(d) == {k \in DOMAIN d.v : isObject(d.v[k])}

\* the loop over this._virtuals.entries(): set(result, path, value) and
\* unset(result, path) write the object of _data when the path leads
\* through a key that is shared
RECURSIVE SerializeShared(_, _, _, _, _)
SerializeShared(s, result, shared, names, condition) ==
    IF names = <<>> THEN [data |-> s.data, result |-> result]
    ELSE LET n == Head(names)
             path == PathOf(n)
             value == DottedGet(n, s)
             flag == IF condition = "save" THEN s.virtuals[n].save ELSE s.virtuals[n].serialize
             dropped == flag = FALSE \/ isNullOrUndefined(value)
             through == Len(path) > 1 /\ path[1] \in shared
             r1 == IF dropped THEN LodashUnset(result, path) ELSE LodashSet(result, path, value)
             d1 == IF ~through THEN s.data
                   ELSE IF dropped THEN LodashUnset(s.data, path)
                   ELSE LodashSet(s.data, path, value)
         IN  SerializeShared([s EXCEPT !.data = d1], r1,
                             IF through THEN shared ELSE shared \ {path[1]},
                             Tail(names), condition)

\* Record.serialize(condition) of such a Record
RecordSerializeShared(s, condition) ==
    LET r == SerializeShared(s, ObjectAssign(s.data), SharedKeys(s.data), DottedNames, condition)
    IN  WithRet([s EXCEPT !.data = r.data], r.result)

\* new Record({virtuals}, d): no virtual has save, so that commit leaves d
\* as it is
SerializeInit ==
    \E d \in DottedData, serialize \in BOOLEAN :
        LET s0 == RecState(Obj(EmptyMap), <<>>, virtualsSetter(DottedVirtuals(serialize)),
                           Num(100), Bool(FALSE))
        IN  /\ data = d
            /\ changes = <<>>
            /\ virtuals = s0.virtuals
            /\ number = s0.number
            /\ saved = s0.saved
            /\ base = NoBase
            /\ ops = 0
            /\ last = [op |-> "new", key |-> <<>>, value |-> Undef, count |-> 0,
                       arg |-> ArgObject(d), ret |-> "undefined", pre |-> s0,
                       prebase |-> NoBase]
            /\ handlers = NoHandlers
            /\ twin = NoTwin
            /\ mapper = NoMapper
            /\ query = NoQuery
            /\ container = NoContainer

\* record.set(key, value) on a plain key
SetPlain ==
    \E key \in {<<"a">>, <<"a", "x">>, <<"b">>}, value \in {Num(0), ObjX(Num(0))} :
        /\ ops < MaxSerialize
        /\ Call("set", key, value, 0, NoArg, RecordSet(Cur, key, value))

SerializeDotted ==
    \E condition \in {"serialize", "save"} :
        /\ ops < MaxSerialize
        /\ Call("serialize", <<>>, Str(condition), 0, NoArg, RecordSerializeShared(Cur, condition))

ToJSONDotted ==
    /\ ops < MaxSerialize
    /\ Call("toJSON", <<>>, Undef, 0, NoArg, RecordSerializeShared(Cur, "serialize"))

\* the caller writes or deletes a top-level key of the object it got
MutateResult ==
    /\ last.op \in {"serialize", "toJSON"}
    /\ ops < MaxSerialize + 1
    /\ \E key \in {"a", "b"}, value \in {Num(0), Undef} :
          Call("mutateResult", <<key>>, value, 0, NoArg,
               WithRet(Cur, IF value = Undef THEN PropDelete(last.ret, key)
                            ELSE PropAssign(last.ret, key, value)))

SerializeNext == SetPlain \/ SerializeDotted \/ ToJSONDotted \/ MutateResult

SerializeSpec == SerializeInit /\ [][SerializeNext]_vars

\* C39: serialize(condition) and toJSON() leave the data and the change log
\* of the Record as they were, also with a virtual declared at a nested
\* path, and so does a write to a top-level key of the object returned.
C39_SerializeReadOnly ==
    last.op \in {"serialize", "toJSON", "mutateResult"} =>
        /\ data = Pre.data
        /\ changes = Pre.changes

\* C40: revert(count) and revert() return without an error whatever count
\* is; with count at or above the length of the log the log is empty
\* afterwards, and revert() on an empty log changes nothing.
C40_RevertNeverFails ==
    IsRevert =>
        /\ last.ret = "undefined"
        /\ last.count >= Len(Pre.changes) => changes = <<>>
        /\ (last.op = "revertAll" /\ Pre.changes = <<>>) => Cur = Pre

====
